---- MODULE Spec2Model ----
(***************************************************************************)
(* CivReply drafts: the topic classifier of retriever_catalog.py, the      *)
(* topic / risk classifiers and the autosend gate of worker_autoreply.py,  *)
(* and the polling worker with its processed-ids state.                    *)
(*                                                                         *)
(* Texts are strings; Python's str.lower, the `in` substring test and      *)
(* re.search are modelled character by character.                          *)
(***************************************************************************)
EXTENDS Integers, Sequences, FiniteSets, TLC

(***************************************************************************)
(* Strings                                                                 *)
(***************************************************************************)

\* The i-th character of s, as a one-character string.
CharAt(s, i) == SubSeq(s, i, i)

UpperToLower ==
  [c \in {"A","B","C","D","E","F","G","H","I","J","K","L","M","N","O","P","Q",
          "R","S","T","U","V","W","X","Y","Z"} |->
     CASE c = "A" -> "a" [] c = "B" -> "b" [] c = "C" -> "c" [] c = "D" -> "d"
       [] c = "E" -> "e" [] c = "F" -> "f" [] c = "G" -> "g" [] c = "H" -> "h"
       [] c = "I" -> "i" [] c = "J" -> "j" [] c = "K" -> "k" [] c = "L" -> "l"
       [] c = "M" -> "m" [] c = "N" -> "n" [] c = "O" -> "o" [] c = "P" -> "p"
       [] c = "Q" -> "q" [] c = "R" -> "r" [] c = "S" -> "s" [] c = "T" -> "t"
       [] c = "U" -> "u" [] c = "V" -> "v" [] c = "W" -> "w" [] c = "X" -> "x"
       [] c = "Y" -> "y" [] c = "Z" -> "z"]

\* str.lower()
RECURSIVE Lower(_)
Lower(s) ==
  IF s = "" THEN ""
  ELSE LET c == CharAt(s, 1)
       IN (IF c \in DOMAIN UpperToLower THEN UpperToLower[c] ELSE c)
            \o Lower(SubSeq(s, 2, Len(s)))

\* str.strip() (whitespace at both ends removed)
SpaceChars == {" ", "\n", "\t", "\r"}

RECURSIVE LStrip(_)
LStrip(s) ==
  IF s # "" /\ CharAt(s, 1) \in SpaceChars THEN LStrip(SubSeq(s, 2, Len(s))) ELSE s

RECURSIVE RStrip(_)
RStrip(s) ==
  IF s # "" /\ CharAt(s, Len(s)) \in SpaceChars
  THEN RStrip(SubSeq(s, 1, Len(s) - 1)) ELSE s

Strip(s) == RStrip(LStrip(s))

\* Python's `k in t` for strings
Contains(t, k) ==
  \E i \in 1..(Len(t) - Len(k) + 1) : SubSeq(t, i, i + Len(k) - 1) = k

\* An optional string: Python's None or a str.  `x or ""`
None == [none |-> TRUE, s |-> ""]
Str(s) == [none |-> FALSE, s |-> s]
OrEmpty(x) == IF x.none THEN "" ELSE x.s

Range(f) == {f[i] : i \in DOMAIN f}

(***************************************************************************)
(* Regular expressions (the subset of `re` the rule tables use)            *)
(***************************************************************************)

DigitChars == {"0","1","2","3","4","5","6","7","8","9"}
\* \w on the texts of the model: letters, digits and underscore
WordChars ==
  DigitChars \cup {"_"} \cup DOMAIN UpperToLower \cup Range(UpperToLower)

InClass(cls, c) ==
  CASE cls = "space"  -> c \in SpaceChars          \* \s
    [] cls = "dot"    -> c # "\n"                  \* .  (no DOTALL)
    [] cls = "digit"  -> c \in DigitChars          \* \d

Unbounded == -1

L(s)        == [k |-> "lit", s |-> s]
S(rs)       == [k |-> "seq", rs |-> rs]
A(rs)       == [k |-> "alt", rs |-> rs]
O(r)        == [k |-> "opt", r |-> r]
Rep(c, lo, hi) == [k |-> "rep", cls |-> c, lo |-> lo, hi |-> hi]
WS          == Rep("space", 0, Unbounded)          \* \s*
ANY         == Rep("dot", 0, Unbounded)            \* .*
WB          == [k |-> "wb"]                        \* \b

IsWordAt(t, i) == i >= 1 /\ i <= Len(t) /\ CharAt(t, i) \in WordChars

\* The positions just after a match of r that starts at position i of t
RECURSIVE Ends(_, _, _)
RECURSIVE SeqEnds(_, _, _, _)
Ends(r, t, i) ==
  CASE r.k = "lit" ->
         IF i + Len(r.s) - 1 <= Len(t) /\ SubSeq(t, i, i + Len(r.s) - 1) = r.s
         THEN {i + Len(r.s)} ELSE {}
    [] r.k = "seq" -> SeqEnds(r.rs, 1, t, {i})
    [] r.k = "alt" -> UNION {Ends(r.rs[n], t, i) : n \in 1..Len(r.rs)}
    [] r.k = "opt" -> {i} \cup Ends(r.r, t, i)
    [] r.k = "rep" ->
         {j \in (i + r.lo)..(Len(t) + 1) :
            /\ r.hi = Unbounded \/ j - i <= r.hi
            /\ \A p \in i..(j - 1) : InClass(r.cls, CharAt(t, p))}
    [] r.k = "wb"  -> IF IsWordAt(t, i - 1) # IsWordAt(t, i) THEN {i} ELSE {}

SeqEnds(rs, n, t, starts) ==
  IF n > Len(rs) \/ starts = {} THEN starts
  ELSE SeqEnds(rs, n + 1, t, UNION {Ends(rs[n], t, i) : i \in starts})

\* re.search(p, t) is not None
Search(p, t) == \E i \in 1..(Len(t) + 1) : Ends(p, t, i) # {}

(***************************************************************************)
(* retriever_catalog.py: the topic classifier                              *)
(***************************************************************************)

\* Classification rules: <<topic key, patterns>>, in declaration order
TOPIC_RULES == <<
    <<"book_hard_waste", <<
        S(<<WB, A(<<L("book"), L("booking")>>), WB, ANY, L("hard"), WS, A(<<L("waste"),
          L("rubbish")>>)>>),
        S(<<L("hard"), WS, A(<<L("waste"), L("rubbish")>>), ANY, WB, L("book")>>)>> >>,
    <<"hard_waste", <<
        S(<<L("hard"), WS, A(<<L("waste"), L("rubbish")>>)>>),
        S(<<WB, L("bulky"), WB>>),
        L("mattress")>> >>,
    <<"find_bin_day", <<
        S(<<WB, A(<<L("bin"), L("waste")>>), WS, A(<<L("day"), L("calendar"), L("schedule")>>)>>),
        S(<<L("what"), WS, L("day"), WS, A(<<L("is"), L("are")>>), WS, ANY, L("bin")>>)>> >>,
    <<"bin_requests", <<
        S(<<A(<<L("broken"), L("damaged"), L("stolen")>>), WS, L("bin")>>),
        S(<<L("replace"), WS, L("bin")>>),
        S(<<L("new"), WS, L("bin")>>),
        S(<<L("miss"), A(<<L("ed"), L("ing")>>), WS, L("bin")>>),
        S(<<L("bin"), WS, L("not"), WS, L("collected")>>)>> >>,
    <<"fogo", <<
        S(<<WB, L("FOGO"), WB>>),
        S(<<L("green"), WS, L("bin")>>),
        S(<<L("garden"), WS, L("waste")>>),
        L("organics")>> >>,
    <<"recycling_az", <<
        S(<<WB, A(<<S(<<L("a"), O(L("-")), L("z")>>), S(<<L("what"), WS, L("goes"), WS,
          L("in")>>)>>), WB>>),
        S(<<L("recycl"), A(<<L("e"), L("ing")>>), WS, L("guide")>>)>> >>,
    <<"transfer_station", <<
        S(<<WB, L("tip"), WB>>),
        S(<<L("transfer"), WS, L("station")>>),
        S(<<WB, L("landfill"), WB>>),
        S(<<L("resource"), WS, L("recovery")>>)>> >>,
    <<"hazardous_waste", <<
        S(<<L("hazard"), O(L("ous"))>>),
        S(<<L("chemical"), O(L("s"))>>),
        L("paint"),
        L("battery"),
        S(<<L("e"), O(L("-")), L("waste")>>),
        L("asbestos")>> >>,
    <<"waste_overview", <<
        S(<<WB, A(<<L("bin"), L("waste"), L("recycling"), L("collection")>>), WB>>)>> >>,
    <<"household_bins", <<
        S(<<L("household"), WS, L("bin")>>)>> >>,
    <<"disability_parking", <<
        S(<<L("disability"), WS, L("parking")>>),
        S(<<WB, L("DPP"), WB>>)>> >>,
    <<"parking_fine_review", <<
        S(<<A(<<L("appeal"), L("review")>>), WS, A(<<L("fine"), L("infringement")>>)>>),
        S(<<WB, L("nominat"), A(<<L("e"), L("ion")>>), WB>>)>> >>,
    <<"parking_fines_pay", <<
        S(<<L("parking"), WS, A(<<L("fine"), L("infringement")>>), ANY, A(<<L("pay"),
          L("payment")>>)>>),
        S(<<WB, L("pay"), WS, L("fine"), WB>>)>> >>,
    <<"parking_permits_regs", <<
        S(<<L("parking"), WS, L("permit")>>),
        S(<<L("resident"), WS, L("permit")>>),
        S(<<L("visitor"), WS, L("permit")>>),
        S(<<L("parking"), WS, L("regulation")>>)>> >>,
    <<"rates_payment_plan", <<
        S(<<L("payment"), WS, L("plan"), ANY, L("rates")>>)>> >>,
    <<"rates_hardship", <<
        S(<<L("rate"), O(L("s")), WS, A(<<L("hardship"), L("assistance")>>)>>)>> >>,
    <<"rates_pay", <<
        S(<<WB, L("pay"), O(L("ing")), WS, L("rate"), O(L("s")), WB>>),
        S(<<L("rate"), O(L("s")), WS, L("payment")>>)>> >>,
    <<"rates_home", <<
        S(<<WB, L("rate"), O(L("s")), WB>>),
        S(<<WB, L("valuation"), WB>>)>> >>,
    <<"pet_registration", <<
        S(<<L("register"), WS, A(<<L("dog"), L("cat"), L("pet")>>)>>),
        S(<<L("pet"), WS, L("registration")>>),
        L("microchip")>> >>,
    <<"animal_permits", <<
        S(<<L("animal"), WS, L("permit")>>)>> >>,
    <<"barking_dog", <<
        S(<<WB, L("bark"), O(L("ing")), WB>>),
        S(<<L("dog"), WS, L("noise")>>),
        S(<<L("dog"), WS, L("attack")>>)>> >>,
    <<"report_issue", <<
        S(<<WB, L("report"), WB>>),
        S(<<L("request"), WS, A(<<L("fix"), L("service")>>)>>),
        L("pothole"),
        L("footpath"),
        S(<<L("street"), WS, L("light")>>),
        L("graffiti")>> >>,
    <<"noise", <<
        S(<<WB, L("noise"), WB>>),
        S(<<L("loud"), WS, L("music")>>),
        L("party"),
        S(<<L("construction"), WS, L("noise")>>)>> >>,
    <<"graffiti", <<
        S(<<WB, L("graffiti"), WB>>)>> >>,
    <<"trees_nature_strips", <<
        S(<<L("street"), WS, L("tree")>>),
        S(<<L("nature"), WS, L("strip")>>),
        S(<<L("prun"), A(<<L("e"), L("ing")>>)>>)>> >>,
    <<"planning_permits", <<
        S(<<L("planning"), WS, L("permit")>>),
        S(<<L("plan"), WS, L("permit")>>),
        S(<<L("advertis"), A(<<L("ing"), L("ed")>>)>>)>> >>,
    <<"building_permits", <<
        S(<<L("building"), WS, L("permit")>>),
        L("construction"),
        L("demolition"),
        L("surveyor")>> >>,
    <<"local_laws", <<
        S(<<L("local"), WS, L("law")>>),
        S(<<L("footpath"), WS, A(<<L("trading"), L("dining")>>)>>),
        S(<<L("amplified"), WS, L("sound")>>)>> >>,
    <<"libraries", <<
        S(<<WB, L("librar"), A(<<L("y"), L("ies")>>), WB>>),
        S(<<L("library"), WS, L("hours")>>),
        L("borrow"),
        L("membership")>> >>,
    <<"hire_a_space", <<
        S(<<L("venue"), WS, L("hire")>>),
        S(<<L("hall"), WS, L("hire")>>),
        S(<<L("community"), WS, L("centre")>>),
        S(<<L("book"), WS, O(S(<<L("a"), WS>>)), L("venue")>>)>> >>,
    <<"sports_bookings", <<
        S(<<L("sport"), O(L("s")), A(<<L("ground"), L(" oval"), L(" pavilion")>>)>>),
        S(<<L("book"), WS, A(<<L("ground"), L("oval"), L("court")>>)>>),
        S(<<L("seasonal"), WS, L("allocation")>>)>> >>,
    <<"kindergarten_register", <<
        S(<<WB, L("kind"), A(<<L("er"), L("ergarten")>>), WB>>),
        S(<<L("enrol"), O(L("l"))>>),
        S(<<L("child"), WS, L("care")>>),
        S(<<L("early"), WS, L("years")>>)>> >>,
    <<"immunisation", <<
        S(<<WB, L("immuni"), A(<<L("s"), L("z")>>), L("ation"), WB>>),
        S(<<L("vaccin"), A(<<L("e"), L("ation")>>)>>)>> >>,
    <<"leisure_centres", <<
        S(<<WB, L("aquapulse"), WB>>),
        S(<<WB, L("pool"), WB>>),
        S(<<L("leisure"), WS, L("centre")>>)>> >>,
    <<"foi", <<
        S(<<L("freedom"), WS, L("of"), WS, L("information")>>),
        S(<<WB, L("FOI"), WB>>)>> >>,
    <<"privacy", <<
        S(<<WB, L("privacy"), WB>>),
        S(<<L("personal"), WS, L("information")>>)>> >>,
    <<"contact", <<
        S(<<WB, L("contact"), WB>>),
        L("phone"),
        L("email"),
        S(<<L("customer"), WS, L("service")>>)>> >>
  >>

\* The cap of _classify ("up to 4 topic keys")
MaxTopics == 4

\* any(re.search(p, t) for p in patterns) for the n-th rule
RuleMatches(n, t) ==
  \E k \in 1..Len(TOPIC_RULES[n][2]) : Search(TOPIC_RULES[n][2][k], t)

\* The rules for which that test succeeds on t
MatchingRules(t) == {n \in 1..Len(TOPIC_RULES) : RuleMatches(n, t)}

\* The loop with the cap tested one hit too late (> for >=)
RECURSIVE ClassifyLoop_CapOffByOne(_, _, _)
ClassifyLoop_CapOffByOne(matches, n, hits) ==
  IF n > Len(TOPIC_RULES) THEN hits
  ELSE LET topic == TOPIC_RULES[n][1]
           h1 == IF n \in matches /\ topic \notin Range(hits)
                 THEN Append(hits, topic) ELSE hits
       IN IF Len(h1) > MaxTopics THEN h1 ELSE ClassifyLoop_CapOffByOne(matches, n + 1, h1)

\* The loop with each hit put in front of the list (insert(0, topic) for append)
RECURSIVE ClassifyLoop_Prepends(_, _, _)
ClassifyLoop_Prepends(matches, n, hits) ==
  IF n > Len(TOPIC_RULES) THEN hits
  ELSE LET topic == TOPIC_RULES[n][1]
           h1 == IF n \in matches /\ topic \notin Range(hits)
                 THEN <<topic>> \o hits ELSE hits
       IN IF Len(h1) >= MaxTopics THEN h1 ELSE ClassifyLoop_Prepends(matches, n + 1, h1)

\* The for loop of _classify from rule n on, with the hits collected so far;
\* matches holds the rules whose test of line 290 succeeds
RECURSIVE ClassifyLoop(_, _, _)
ClassifyLoop(matches, n, hits) ==
  IF n > Len(TOPIC_RULES) THEN hits
  ELSE LET topic == TOPIC_RULES[n][1]
           h1 == IF n \in matches /\ topic \notin Range(hits)
                 THEN Append(hits, topic) ELSE hits
       IN IF Len(h1) >= MaxTopics THEN h1 ELSE ClassifyLoop(matches, n + 1, h1)

\* What _classify returns, given the rules that match its text
ClassifyResult(matches) ==
  LET hits == ClassifyLoop(matches, 1, <<>>)
  IN IF hits = <<>> THEN <<"contact">> ELSE hits

\* _classify(text)
classify(text) == ClassifyResult(MatchingRules(Lower(OrEmpty(text))))

(***************************************************************************)
(* worker_autoreply.py: topic classifier, risk heuristics, loop guards     *)
(***************************************************************************)

\* <<topic, keywords>>, in the insertion order of the dict
TOPIC_KEYWORDS == <<
    <<"waste", <<"bin", "bins", "waste", "rubbish", "garbage", "recycling", "collection",
                 "hard rubbish", "green waste", "fogo">> >>,
    <<"rates", <<"rates", "rate notice", "pay rates", "instalment", "installment",
                 "due date", "valuation">> >>,
    <<"libraries", <<"library", "libraries", "books", "tarneit library", "werribee library",
                     "point cook library", "hours">> >>,
    <<"animals", <<"dog", "cat", "animal", "pet registration", "microchip", "desex">> >>,
    <<"opening hours", <<"opening hours", "hours", "what time", "open today",
                         "public holiday hours", "closing time">> >>,
    <<"general info", <<"information", "contact", "help", "assistance", "services">> >>
  >>

\* scores[topic] after the two nested loops: the number of keywords found in t
TopicScore(n, t) ==
  Cardinality({k \in 1..Len(TOPIC_KEYWORDS[n][2]) : Contains(t, TOPIC_KEYWORDS[n][2][k])})

\* The scores dict, as the tuple of the topics' scores in dict order
RECURSIVE TopicScores(_, _)
TopicScores(n, t) ==
  IF n = 0 THEN <<>> ELSE Append(TopicScores(n - 1, t), TopicScore(n, t))

\* max taking the last of the topics with the top score (>= for > in the scan)
MaxScoreIndex_LastOfEquals(scores) ==
  CHOOSE n \in 1..Len(scores) :
    /\ \A m \in 1..Len(scores) : scores[m] <= scores[n]
    /\ \A m \in (n + 1)..Len(scores) : scores[m] < scores[n]

\* max(scores, key=scores.get): the first topic, in dict order, with the top score
MaxScoreIndex(scores) ==
  CHOOSE n \in 1..Len(scores) :
    /\ \A m \in 1..Len(scores) : scores[m] <= scores[n]
    /\ \A m \in 1..(n - 1) : scores[m] < scores[n]

\* classify_topic without the test of line 112: the top-scoring topic even at score 0
classify_topic_NoFallback(text, green_topics) ==
  LET t == Lower(OrEmpty(text))
      scores == TopicScores(Len(TOPIC_KEYWORDS), t)
      topic == TOPIC_KEYWORDS[MaxScoreIndex(scores)][1]
  IN [topic |-> topic, is_green |-> topic \in green_topics]

\* classify_topic(text) -> (topic, topic in GREEN_TOPICS)
classify_topic(text, green_topics) ==
  LET t == Lower(OrEmpty(text))
      scores == TopicScores(Len(TOPIC_KEYWORDS), t)
      n == MaxScoreIndex(scores)
      topic == IF scores[n] = 0 THEN "general info" ELSE TOPIC_KEYWORDS[n][1]
  IN [topic |-> topic, is_green |-> topic \in green_topics]

AMBER_TRIGGERS ==
  <<"complaint", "unhappy", "delay", "refund", "appeal", "escalate", "supervisor",
    "deadline", "urgent", "threat", "media", "ombudsman", "privacy", "frustrated", "angry">>

RED_TRIGGERS ==
  <<"foi", "freedom of information", "accident", "injury", "legal", "threaten", "assault",
    "payment dispute", "chargeback", "personal information request", "vulnerable",
    "danger", "police">>

\* r"\b\d{8,}\b" and r"\b\+?\d{9,15}\b"
PII_PATTERNS ==
  << S(<<WB, Rep("digit", 8, Unbounded), WB>>),
     S(<<WB, O(L("+")), Rep("digit", 9, 15), WB>>) >>

\* any(k in t for k in triggers)
AnyIn(triggers, t) == \E k \in 1..Len(triggers) : Contains(t, triggers[k])

\* any(p.search(t) for p in patterns)
AnySearch(patterns, t) == \E k \in 1..Len(patterns) : Search(patterns[k], t)

\* classify_risk with the AMBER triggers tested before the RED ones
classify_risk_AmberFirst(text) ==
  LET t == Lower(OrEmpty(text))
      kw == IF AnyIn(AMBER_TRIGGERS, t)
              THEN [risk |-> "AMBER", reasons |-> <<"Potential complaint/escalation">>]
            ELSE IF AnyIn(RED_TRIGGERS, t)
              THEN [risk |-> "RED", reasons |-> <<"High-risk keyword">>]
            ELSE [risk |-> "GREEN", reasons |-> <<>>]
      pii == IF AnySearch(PII_PATTERNS, t)
               THEN [risk |-> IF kw.risk = "GREEN" THEN "AMBER" ELSE kw.risk,
                     reasons |-> Append(kw.reasons, "PII detected")]
             ELSE kw
  IN IF pii.reasons = <<>>
       THEN [risk |-> pii.risk, reasons |-> <<"No risk triggers detected">>]
     ELSE pii

\* classify_risk with a PII match setting the tier to AMBER whatever it was
classify_risk_PiiSetsAmber(text) ==
  LET t == Lower(OrEmpty(text))
      kw == IF AnyIn(RED_TRIGGERS, t)
              THEN [risk |-> "RED", reasons |-> <<"High-risk keyword">>]
            ELSE IF AnyIn(AMBER_TRIGGERS, t)
              THEN [risk |-> "AMBER", reasons |-> <<"Potential complaint/escalation">>]
            ELSE [risk |-> "GREEN", reasons |-> <<>>]
      pii == IF AnySearch(PII_PATTERNS, t)
               THEN [risk |-> "AMBER", reasons |-> Append(kw.reasons, "PII detected")]
             ELSE kw
  IN IF pii.reasons = <<>>
       THEN [risk |-> pii.risk, reasons |-> <<"No risk triggers detected">>]
     ELSE pii

\* classify_risk without its last test: the reasons are returned as collected
classify_risk_NoDefaultReason(text) ==
  LET t == Lower(OrEmpty(text))
      kw == IF AnyIn(RED_TRIGGERS, t)
              THEN [risk |-> "RED", reasons |-> <<"High-risk keyword">>]
            ELSE IF AnyIn(AMBER_TRIGGERS, t)
              THEN [risk |-> "AMBER", reasons |-> <<"Potential complaint/escalation">>]
            ELSE [risk |-> "GREEN", reasons |-> <<>>]
  IN IF AnySearch(PII_PATTERNS, t)
       THEN [risk |-> IF kw.risk = "GREEN" THEN "AMBER" ELSE kw.risk,
             reasons |-> Append(kw.reasons, "PII detected")]
     ELSE kw

\* classify_risk(text) -> (risk, reasons)
classify_risk(text) ==
  LET t == Lower(OrEmpty(text))
      kw == IF AnyIn(RED_TRIGGERS, t)
              THEN [risk |-> "RED", reasons |-> <<"High-risk keyword">>]
            ELSE IF AnyIn(AMBER_TRIGGERS, t)
              THEN [risk |-> "AMBER", reasons |-> <<"Potential complaint/escalation">>]
            ELSE [risk |-> "GREEN", reasons |-> <<>>]
      pii == IF AnySearch(PII_PATTERNS, t)
               THEN [risk |-> IF kw.risk = "GREEN" THEN "AMBER" ELSE kw.risk,
                     reasons |-> Append(kw.reasons, "PII detected")]
             ELSE kw
  IN IF pii.reasons = <<>>
       THEN [risk |-> pii.risk, reasons |-> <<"No risk triggers detected">>]
     ELSE pii

(***************************************************************************)
(* drafts_module.py: the risk heuristics shown in the drafts UI            *)
(***************************************************************************)

drafts_AMBER_TRIGGERS ==
  <<"complaint", "unhappy", "delay", "refund", "appeal", "escalate", "supervisor",
    "deadline", "urgent", "threat", "media", "ombudsman", "privacy">>

drafts_RED_TRIGGERS ==
  <<"foi", "freedom of information", "accident", "injury", "legal", "threaten", "assault",
    "payment dispute", "chargeback", "personal information request", "vulnerable",
    "danger">>

\* drafts_module.classify_risk(text) -> (risk, reasons)
drafts_classify_risk(text) ==
  LET t == Lower(OrEmpty(text))
      kw == IF AnyIn(drafts_RED_TRIGGERS, t)
              THEN [risk |-> "RED", reasons |-> <<"High-risk keyword">>]
            ELSE IF AnyIn(drafts_AMBER_TRIGGERS, t)
              THEN [risk |-> "AMBER", reasons |-> <<"Potential complaint/escalation">>]
            ELSE [risk |-> "GREEN", reasons |-> <<>>]
      pii == IF AnySearch(PII_PATTERNS, t)
               THEN [risk |-> IF kw.risk = "GREEN" THEN "AMBER" ELSE kw.risk,
                     reasons |-> Append(kw.reasons, "PII detected")]
             ELSE kw
  IN IF pii.reasons = <<>>
       THEN [risk |-> pii.risk, reasons |-> <<"No risk triggers detected">>]
     ELSE pii

(***************************************************************************)
(* worker_autoreply.py: loop guards and the autosend decision              *)
(***************************************************************************)

AUTO_REPLY_SUBJECT_PATTERNS ==
  <<"automatic reply", "auto reply", "autoreply", "out of office", "ooo",
    "delivery status notification", "delivery failure", "mail delivery", "postmaster">>

looks_like_auto_reply(subject) ==
  AnyIn(AUTO_REPLY_SUBJECT_PATTERNS, Lower(OrEmpty(subject)))

looks_like_noreply(address) ==
  LET a == Lower(OrEmpty(address))
  IN Contains(a, "no-reply@") \/ Contains(a, "noreply@") \/ Contains(a, "donotreply@")

\* can_autosend with the risk tier left out of the green-only test
CanAutosend_IgnoresRisk(auto_send_all, auto_send_green, topic_is_green, risk) ==
  auto_send_all \/ (topic_is_green /\ auto_send_green)

\* can_autosend with `or` for the first `and` of the green-only test
CanAutosend_TopicOrRisk(auto_send_all, auto_send_green, topic_is_green, risk) ==
  auto_send_all \/ ((topic_is_green \/ risk = "GREEN") /\ auto_send_green)

\* can_autosend with AUTO_SEND_ALL held back for RED messages
CanAutosend_AllButRed(auto_send_all, auto_send_green, topic_is_green, risk) ==
  (auto_send_all /\ risk # "RED") \/ (topic_is_green /\ risk = "GREEN" /\ auto_send_green)

\* can_autosend of process_message
CanAutosend(auto_send_all, auto_send_green, topic_is_green, risk) ==
  auto_send_all \/ (topic_is_green /\ risk = "GREEN" /\ auto_send_green)

(***************************************************************************)
(* retriever_catalog.py: the link catalog                                  *)
(***************************************************************************)

\* Python's truth test of an optional string
Truthy(x) == ~x.none /\ x.s # ""

\* A dict with no key
EmptyMap == [k \in {} |-> None]

\* d[k] = v
Put(d, k, v) == [x \in DOMAIN d \cup {k} |-> IF x = k THEN v ELSE d[x]]

\* The value of a topic key in a catalog: a dict with an optional "title" and
\* an optional "url", or a JSON value that is no dict (a string; null)
Entry(title, url) == [kind |-> "dict", title |-> Str(title), url |-> Str(url)]
EntryNoTitle(url) == [kind |-> "dict", title |-> None, url |-> Str(url)]
EntryNoUrl(title) == [kind |-> "dict", title |-> Str(title), url |-> None]
EntryString == [kind |-> "str", title |-> None, url |-> None]
EntryNull == [kind |-> "null", title |-> None, url |-> None]

\* Python's truth test of such a value (a dict of the model has a key)
EntryTruthy(e) == e.kind # "null"

CATALOG_PATH == "catalog.json"
MAX_LINKS == 6

\* BUILTIN_CATALOG["Wyndham City Council"]["topics"] (a character outside ASCII
\* is written ~)
BuiltinTopics ==
  [ waste_overview |->
      Entry("About Waste & Recycling",
            "https://www.wyndham.vic.gov.au/services/about-waste-and-recycling"),
    household_bins |->
      Entry("Household Bin Services",
            "https://www.wyndham.vic.gov.au/services/waste-recycling/household-bins/household-bin-services"),
    find_bin_day |->
      Entry("Find My Bin Collection Day",
            "https://digital.wyndham.vic.gov.au/myWyndham/"),
    waste_calendar_pdf |->
      Entry("Waste Collection Map & Calendar (PDF)",
            "https://www.wyndham.vic.gov.au/sites/default/files/2024-05/waste%20calendar.pdf"),
    waste_guide |->
      Entry("Waste & Recycling Guide 2025~26",
            "https://www.wyndham.vic.gov.au/sites/default/files/2025-06/Waste%20and%20Recycling%20Guide%202025-2026.pdf"),
    hard_waste |->
      Entry("Hard & Green Waste Collection Service",
            "https://www.wyndham.vic.gov.au/services/waste-recycling/hard-and-green-waste-collection-service"),
    book_hard_waste |->
      Entry("Book a Hard & Green Waste Collection",
            "https://www.wyndham.vic.gov.au/book-hard-green-waste-collection"),
    fogo |->
      Entry("Green-lid Bin (FOGO)",
            "https://www.wyndham.vic.gov.au/services/waste-recycling/household-bins/green-lid-bin-food-organics-and-garden-organics-fogo"),
    bin_requests |->
      Entry("Bin Requests (new, missing, damaged)",
            "https://www.wyndham.vic.gov.au/services/waste-recycling/household-bins/household-bin-services#bin-requests"),
    recycling_az |->
      Entry("A~Z Interactive Residential Waste Guide",
            "https://www.wyndham.vic.gov.au/services/waste-recycling/a-z-interactive-residential-waste-guide"),
    transfer_station |->
      Entry("Municipal Tip / RDF (fees, hours)",
            "https://www.wyndham.vic.gov.au/venues/municipal-tiprdf-refuse-disposal-facility"),
    hazardous_waste |->
      Entry("Other Waste & Recycling (hazardous, Detox Your Home)",
            "https://www.wyndham.vic.gov.au/services/waste-recycling/other-waste-and-recycling-services-initiatives/other-waste-recycling"),
    rates_home |->
      Entry("Rates & Valuations",
            "https://www.wyndham.vic.gov.au/services/rates-valuations/rates-valuations"),
    rates_pay |->
      Entry("Rates Payments",
            "https://www.wyndham.vic.gov.au/payments/rates-payments"),
    rates_hardship |->
      Entry("Difficulty Paying Rates",
            "https://www.wyndham.vic.gov.au/difficulty-paying-rates"),
    rates_payment_plan |->
      Entry("Rates Payment Plan (form)",
            "https://www.wyndham.vic.gov.au/form/rates-payment-plan"),
    pet_registration |->
      Entry("Pet Registration & Ownership",
            "https://www.wyndham.vic.gov.au/services/pets-animals/animal-registration-regulations/pet-registration-and-ownership"),
    animal_permits |->
      Entry("Animal Permits",
            "https://www.wyndham.vic.gov.au/services/pets-animals/animal-registration-regulations/animal-permits"),
    barking_dog |->
      Entry("Dogs & Cats (complaints, barking, attacks)",
            "https://www.wyndham.vic.gov.au/services/pets-animals/animal-complaints-pests/dogs-and-cats"),
    parking_permits_regs |->
      Entry("Parking Regulations & Permits",
            "https://www.wyndham.vic.gov.au/services/roads-parking-transport/parking-regulations-fines/parking-regulations-permits"),
    disability_parking |->
      Entry("Disability Parking Permits",
            "https://www.wyndham.vic.gov.au/services/aged-disability/disability-parking-permits"),
    parking_fines_pay |->
      Entry("Infringement (Parking Fine) Payments",
            "https://www.wyndham.vic.gov.au/payments/infringement-payments"),
    parking_fine_review |->
      Entry("Request a Fine Review or Payment Plan",
            "https://www.wyndham.vic.gov.au/services/roads-parking-transport/parking-regulations-fines/request-review-fine-infringement-notice"),
    report_issue |->
      Entry("Raise a Request or Report an Issue",
            "https://www.wyndham.vic.gov.au/raise-request-or-issue"),
    noise |->
      Entry("Noise & Odour (what~s allowed, how to report)",
            "https://www.wyndham.vic.gov.au/services/local-laws-permits/laws-permits-residents/noise-odour-pollution"),
    graffiti |->
      Entry("Graffiti (how Council manages it)",
            "https://theloop.wyndham.vic.gov.au/download_file/view/1773/783"),
    trees_nature_strips |->
      Entry("Maintaining Your Property (trees, nature strips)",
            "https://www.wyndham.vic.gov.au/services/local-laws-permits/laws-permits-residents/maintaining-your-property"),
    planning_permits |->
      Entry("Planning Application Process",
            "https://www.wyndham.vic.gov.au/services/building-planning/applying-planning-permit/planning-application-process"),
    building_permits |->
      Entry("When is a Building Permit Required?",
            "https://www.wyndham.vic.gov.au/services/building-planning/do-i-need-approval/when-building-permit-required"),
    local_laws |->
      Entry("Local Laws & Permits (Residents)",
            "https://www.wyndham.vic.gov.au/services/local-laws-permits/laws-permits-residents"),
    libraries |->
      Entry("Libraries (locations, hours, catalogue)",
            "https://www.wyndham.vic.gov.au/services/libraries"),
    hire_a_space |->
      Entry("Hire a Space (venues & community centres)",
            "https://www.wyndham.vic.gov.au/services/community-centres-venues/hire-space"),
    sports_bookings |->
      Entry("Sporting Facilities & Reserves for Hire",
            "https://www.wyndham.vic.gov.au/services/sports-parks-recreation/hire-sports-reserve/sporting-facilities-and-reserves-hire"),
    kindergarten_register |->
      Entry("Register for Kindergarten",
            "https://www.wyndham.vic.gov.au/services/childrens-services/kindergarten/step-3-register-kindergarten"),
    immunisation |->
      Entry("Immunisation Services",
            "https://www.wyndham.vic.gov.au/services/childrens-services/immunisation"),
    leisure_centres |->
      Entry("Aquapulse (major leisure centre) & pools",
            "https://www.wyndham.vic.gov.au/services/sports-parks-recreation/major-sporting-leisure-facilities/aquapulse"),
    foi |->
      Entry("Freedom of Information",
            "https://www.wyndham.vic.gov.au/about-council/your-council/administration/freedom-information-request"),
    privacy |->
      Entry("Privacy Policy",
            "https://www.wyndham.vic.gov.au/about-council/your-council/administration/privacy-policy"),
    contact |->
      Entry("Contact Us (phone, hours, after-hours)",
            "https://www.wyndham.vic.gov.au/contact-us") ]

\* The topics TOPIC_SNIPPETS has a helper line for
TOPIC_SNIPPETS ==
  {"find_bin_day", "book_hard_waste", "hard_waste", "fogo",
   "bin_requests", "recycling_az", "transfer_station", "hazardous_waste",
   "rates_pay", "rates_hardship", "parking_permits_regs", "parking_fines_pay",
   "parking_fine_review", "disability_parking", "pet_registration", "barking_dog",
   "report_issue", "noise", "trees_nature_strips", "planning_permits",
   "building_permits", "libraries", "kindergarten_register", "immunisation",
   "leisure_centres", "foi", "privacy", "contact"}

\* BUILTIN_CATALOG
BUILTIN_CATALOG ==
  "Wyndham City Council" :>
    [base |-> Str("https://www.wyndham.vic.gov.au"), topics |-> BuiltinTopics]

\* html.escape of one character
EscapeChar(c) ==
  CASE c = "&" -> "&amp;"
    [] c = "<" -> "&lt;"
    [] c = ">" -> "&gt;"
    [] c = "\"" -> "&quot;"
    [] c = "'" -> "&#x27;"
    [] OTHER -> c

\* html.escape(s): & < > " ' replaced (the two halves of s one after the other)
RECURSIVE HtmlEscape(_)
HtmlEscape(s) ==
  IF s = "" THEN ""
  ELSE IF Len(s) = 1 THEN EscapeChar(s)
  ELSE LET half == Len(s) \div 2
       IN HtmlEscape(SubSeq(s, 1, half)) \o HtmlEscape(SubSeq(s, half + 1, Len(s)))

\* The "topics" of a council blob of the file: a dict of entries, absent, a
\* false value (null, [], "") or another true value
TopicsDict(map) == [kind |-> "dict", map |-> map]
TopicsAbsent == [kind |-> "absent", map |-> EmptyMap]
TopicsNull == [kind |-> "null", map |-> EmptyMap]
TopicsOther == [kind |-> "other", map |-> EmptyMap]

\* A council blob of the file: a dict with optional "base" and "topics", or a
\* JSON value that is no dict
CouncilBlob(base, topics) == [kind |-> "dict", base |-> base, topics |-> topics]
CouncilNotDict == [kind |-> "other", base |-> None, topics |-> TopicsAbsent]

\* What json.load reads from the file: shape A (council -> council blob),
\* shape B (one council blob with "base" and "topics") or no dict at all
BlobA(councils) == [kind |-> "multi", councils |-> councils, single |-> CouncilNotDict]
BlobB(base, topics) ==
  [kind |-> "single", councils |-> EmptyMap, single |-> CouncilBlob(base, topics)]
BlobNotDict == [kind |-> "other", councils |-> EmptyMap, single |-> CouncilNotDict]

\* _normalize_catalog_blob(blob)
normalize_catalog_blob(blob) ==
  IF blob.kind = "single" THEN "Wyndham City Council" :> blob.single
  ELSE IF blob.kind = "multi" THEN blob.councils
  ELSE EmptyMap

\* cdata.get("topics") or {}
TopicsOrEmpty(topics) == IF topics.kind = "dict" THEN topics.map ELSE EmptyMap

\* for k, v in (...).items(): topics[k] = v, for the keys still to visit
RECURSIVE MergeTopics(_, _, _)
MergeTopics(topics, override, keys) ==
  IF keys = {} THEN topics
  ELSE LET k == CHOOSE x \in keys : TRUE
       IN MergeTopics(Put(topics, k, override[k]), override, keys \ {k})

\* The topic map of the council is replaced by the override's
MergeCouncil_ReplacesTopics(out, council, cdata) ==
  LET out1 == IF council \notin DOMAIN out
                THEN Put(out, council, [base |-> cdata.base, topics |-> EmptyMap])
              ELSE IF Truthy(cdata.base)
                THEN Put(out, council, [out[council] EXCEPT !.base = cdata.base])
              ELSE out
  IN Put(out1, council, [out1[council] EXCEPT !.topics = TopicsOrEmpty(cdata.topics)])

\* The body of the for loop of _deep_merge for one council of the override
MergeCouncil(out, council, cdata) ==
  LET out1 == IF council \notin DOMAIN out
                THEN Put(out, council, [base |-> cdata.base, topics |-> EmptyMap])
              ELSE IF Truthy(cdata.base)
                THEN Put(out, council, [out[council] EXCEPT !.base = cdata.base])
              ELSE out
      override == TopicsOrEmpty(cdata.topics)
      topics == MergeTopics(out1[council].topics, override, DOMAIN override)
  IN Put(out1, council, [out1[council] EXCEPT !.topics = topics])

\* The for loop of _deep_merge over the councils still to visit
RECURSIVE MergeCouncils(_, _, _)
MergeCouncils(out, override, councils) ==
  IF councils = {} THEN out
  ELSE LET c == CHOOSE x \in councils : TRUE
       IN MergeCouncils(MergeCouncil(out, c, override[c]), override, councils \ {c})

\* Whether _deep_merge raises: cdata.get on a value that is no dict, or
\* .items() on a true "topics" value that is no dict
DeepMergeRaises(override) ==
  \E c \in DOMAIN override :
    override[c].kind # "dict" \/ override[c].topics.kind = "other"

\* _deep_merge(base, override), when it does not raise
deep_merge(base, override) == MergeCouncils(base, override, DOMAIN override)

\* The file at CATALOG_PATH: absent, not JSON, or JSON holding a blob
NoFile == [exists |-> FALSE, json |-> FALSE, blob |-> BlobNotDict]
BadFile == [exists |-> TRUE, json |-> FALSE, blob |-> BlobNotDict]
JsonFile(blob) == [exists |-> TRUE, json |-> TRUE, blob |-> blob]

\* _load_catalog()
load_catalog(file) ==
  IF ~file.exists \/ ~file.json THEN BUILTIN_CATALOG
  ELSE LET file_cat == normalize_catalog_blob(file.blob)
       IN IF DeepMergeRaises(file_cat) THEN BUILTIN_CATALOG
          ELSE deep_merge(BUILTIN_CATALOG, file_cat)

(***************************************************************************)
(* retriever_catalog.py: answer                                            *)
(***************************************************************************)

\* seq[:n]
Take(seq, n) == SubSeq(seq, 1, IF Len(seq) < n THEN Len(seq) ELSE n)

\* s.replace("\n", "<br>")
BrChar(c) == IF c = "\n" THEN "<br>" ELSE c
RECURSIVE NewlinesToBr(_)
NewlinesToBr(s) ==
  IF s = "" THEN ""
  ELSE IF Len(s) = 1 THEN BrChar(s)
  ELSE LET half == Len(s) \div 2
       IN NewlinesToBr(SubSeq(s, 1, half)) \o NewlinesToBr(SubSeq(s, half + 1, Len(s)))

\* The slice of line 384
SnippetLimit == 900

\* r"\bbook(ing)?\b" of line 360
BookingPattern == S(<<WB, L("book"), O(L("ing")), WB>>)

\* What answer takes from its text: _classify's list and the test of line 360
ClassifyEmail(t) ==
  [hits |-> classify(t), booking |-> Search(BookingPattern, Lower(OrEmpty(t)))]

\* The for loop of lines 364-367 from the n-th key of wanted on.  info.get
\* raises on a true value that is no dict
RECURSIVE LinksLoop(_, _, _, _)
LinksLoop(topics_map, wanted, n, links) ==
  IF n > Len(wanted) THEN [raised |-> FALSE, links |-> links]
  ELSE IF wanted[n] \notin DOMAIN topics_map
    THEN LinksLoop(topics_map, wanted, n + 1, links)
  ELSE LET info == topics_map[wanted[n]]
       IN IF ~EntryTruthy(info) THEN LinksLoop(topics_map, wanted, n + 1, links)
          ELSE IF info.kind # "dict" THEN [raised |-> TRUE, links |-> links]
          ELSE IF Truthy(info.url)
            THEN LinksLoop(topics_map, wanted, n + 1, Append(links, info))
          ELSE LinksLoop(topics_map, wanted, n + 1, links)

\* The contact entry is appended whether or not a link was found
ContactFallback_Always(topics_map, links) ==
  IF "contact" \in DOMAIN topics_map /\ EntryTruthy(topics_map["contact"])
  THEN Append(links, topics_map["contact"]) ELSE links

\* Lines 370-371: the contact entry when no link was found
ContactFallback(topics_map, links) ==
  IF links = <<>> /\ "contact" \in DOMAIN topics_map /\ EntryTruthy(topics_map["contact"])
  THEN <<topics_map["contact"]>> ELSE links

\* Lines 374-378: the first key of wanted that has a helper line, if any
RECURSIVE HelperKey(_, _)
HelperKey(wanted, n) ==
  IF n > Len(wanted) THEN None
  ELSE IF wanted[n] \in TOPIC_SNIPPETS THEN Str(wanted[n])
  ELSE HelperKey(wanted, n + 1)

\* x['url'] or x['title'] raises for a link x of lines 385-388
ItemRaises(x) == x.kind # "dict" \/ x.url.none \/ x.title.none

\* The <li> of a link: the href and the text of its <a>
ListItem(x) == [href |-> HtmlEscape(x.url.s), text |-> HtmlEscape(x.title.s)]

\* The citation of a link (line 407)
Citation(x) ==
  (IF x.title.none THEN "Council page" ELSE x.title.s) \o " | " \o
  (IF x.url.none THEN "" ELSE x.url.s)

\* What a call of answer comes to: an exception, or (body, citations) with the
\* body given by its parts
Raised ==
  [raised |-> TRUE, escalated |-> FALSE, council |-> "", wanted |-> <<>>, links |-> <<>>,
   helper |-> None, items |-> <<>>, snippet |-> "", citations |-> <<>>]

\* The escalation reply cites the built-in contact page
Escalation_CitesContact(council_name) ==
  [raised |-> FALSE, escalated |-> TRUE, council |-> HtmlEscape(council_name),
   wanted |-> <<>>, links |-> <<BuiltinTopics["contact"]>>, helper |-> None,
   items |-> <<ListItem(BuiltinTopics["contact"])>>, snippet |-> "",
   citations |-> <<Citation(BuiltinTopics["contact"])>>]

\* The else branch of lines 348-353: the escalation body and no citation
Escalation(council_name) ==
  [raised |-> FALSE, escalated |-> TRUE, council |-> HtmlEscape(council_name),
   wanted |-> <<>>, links |-> <<>>, helper |-> None, items |-> <<>>, snippet |-> "",
   citations |-> <<>>]

\* The quoted block cut after escaping: the first 900 characters of the escaped text
Snippet_TruncatesEscaped(email_text) ==
  NewlinesToBr(Take(HtmlEscape(Strip(OrEmpty(email_text))), SnippetLimit))

\* Line 384: html.escape((email_text or "").strip()[:900]).replace("\n", "<br>")
Snippet(email_text) ==
  NewlinesToBr(HtmlEscape(Take(Strip(OrEmpty(email_text)), SnippetLimit)))

\* Lines 355-408 of answer for the council picked
AnswerFor(council_name, topics_map, email_text, cls) ==
  LET wanted == IF /\ "hard_waste" \in Range(cls.hits)
                   /\ "book_hard_waste" \in DOMAIN topics_map
                   /\ cls.booking
                THEN <<"book_hard_waste">> \o cls.hits ELSE cls.hits
      loop == LinksLoop(topics_map, wanted, 1, <<>>)
      links == ContactFallback(topics_map, loop.links)
      shown == Take(links, MAX_LINKS)
  IN IF loop.raised \/ \E i \in 1..Len(shown) : ItemRaises(shown[i]) THEN Raised
     ELSE [raised |-> FALSE, escalated |-> FALSE, council |-> HtmlEscape(council_name),
           wanted |-> wanted, links |-> links,
           helper |-> HelperKey(wanted, 1),
           items |-> [i \in 1..Len(shown) |-> ListItem(shown[i])],
           snippet |-> Snippet(email_text),
           citations |-> [i \in 1..Len(shown) |-> Citation(shown[i])]]

\* answer(email_text, council_name), given what the file at CATALOG_PATH holds
\* and what _classify and line 360 find in the text
answer(email_text, council_name, file, cls) ==
  LET catalog == load_catalog(file)
  IN IF ~council_name.none /\ council_name.s \in DOMAIN catalog
       THEN AnswerFor(council_name.s, catalog[council_name.s].topics, email_text, cls)
     ELSE IF Contains(Lower(OrEmpty(council_name)), "wyndham")
       THEN AnswerFor("Wyndham City Council", catalog["Wyndham City Council"].topics,
                      email_text, cls)
     ELSE IF council_name.none THEN Raised      \* html.escape(None)
     ELSE Escalation(council_name.s)

(***************************************************************************)
(* Composed replies: worker_autoreply.build_email_html and                 *)
(* drafts_module._default_reply, build_cited_reply                         *)
(***************************************************************************)

\* re.sub(r"\s+", " ", s) on the characters lo..hi of s: the first character
\* of a run of whitespace becomes one space, the others nothing
RECURSIVE CollapseRange(_, _, _)
CollapseRange(s, lo, hi) ==
  IF lo > hi THEN ""
  ELSE IF lo = hi
    THEN IF CharAt(s, lo) \in SpaceChars
         THEN IF lo > 1 /\ CharAt(s, lo - 1) \in SpaceChars THEN "" ELSE " "
         ELSE CharAt(s, lo)
  ELSE LET mid == (lo + hi) \div 2
       IN CollapseRange(s, lo, mid) \o CollapseRange(s, mid + 1, hi)

\* .replace("&","&amp;").replace("<","&lt;").replace(">","&gt;") of one character
QuoteChar(c) ==
  CASE c = "&" -> "&amp;"
    [] c = "<" -> "&lt;"
    [] c = ">" -> "&gt;"
    [] OTHER -> c

RECURSIVE QuoteEscape(_)
QuoteEscape(s) ==
  IF s = "" THEN ""
  ELSE IF Len(s) = 1 THEN QuoteChar(s)
  ELSE LET half == Len(s) \div 2
       IN QuoteEscape(SubSeq(s, 1, half)) \o QuoteEscape(SubSeq(s, half + 1, Len(s)))

\* Lines 223-224 of build_email_html: quote_text, then quote_html
quote_html(user_body_text) ==
  QuoteEscape(Strip(CollapseRange(OrEmpty(user_body_text), 1,
                                  Len(OrEmpty(user_body_text)))))

\* What get_answer_fn is: absent (None), a function that raises, or a function
\* that returns a tuple (html, citations), a dict, a str or a value of another
\* shape.  html is None where the tuple is empty or the dict has no
\* "answer_html"; a str among the links keeps its text in the title field
NoSource == [kind |-> "absent", shape |-> "", html |-> None, links |-> <<>>,
             citations |-> <<>>]
RaisingSource == [kind |-> "raises", shape |-> "", html |-> None, links |-> <<>>,
                  citations |-> <<>>]
ReturnsTuple(html, citations) ==
  [kind |-> "returns", shape |-> "tuple", html |-> html, links |-> <<>>,
   citations |-> citations]
ReturnsDict(html, links) ==
  [kind |-> "returns", shape |-> "dict", html |-> html, links |-> links,
   citations |-> <<>>]
ReturnsStr(html) ==
  [kind |-> "returns", shape |-> "str", html |-> Str(html), links |-> <<>>,
   citations |-> <<>>]
ReturnsOther ==
  [kind |-> "returns", shape |-> "other", html |-> None, links |-> <<>>,
   citations |-> <<>>]
LinkString(s) == [kind |-> "str", title |-> Str(s), url |-> None]

\* What a composing function comes to: an exception, or the parts of the html
\* it returns that come from its arguments
NoReply ==
  [fn |-> "", raised |-> FALSE, default |-> FALSE, council |-> "", body |-> "",
   items |-> <<>>, quote |-> "", citations |-> <<>>]
ReplyRaised(fn) == [NoReply EXCEPT !.fn = fn, !.raised = TRUE]

\* l["url"], l["title"]: KeyError on a dict without the key, TypeError on a
\* str or None
LinkRaises(l) == l.kind # "dict" \/ l.title.none \/ l.url.none

\* Lines 217-220 and 223-224 of build_email_html: generated.get raises on a
\* value that is no dict; the items of generated["links"][:6] are written as
\* they are
build_email_html(user_body_text, generated) ==
  LET shown == Take(generated.links, 6)
  IN IF generated.shape # "dict" THEN ReplyRaised("build_email_html")
     ELSE IF \E i \in 1..Len(shown) : LinkRaises(shown[i])
       THEN ReplyRaised("build_email_html")
     ELSE [NoReply EXCEPT
             !.fn = "build_email_html",
             !.body = IF generated.html.none THEN "<p>Thanks for your email.</p>"
                      ELSE generated.html.s,
             !.items = [i \in 1..Len(shown) |->
                          [href |-> shown[i].url.s, text |-> shown[i].title.s]],
             !.quote = quote_html(user_body_text)]

\* s.split()[0], for a string that has a token
RECURSIVE UpToSpace(_)
UpToSpace(s) ==
  IF s = "" \/ CharAt(s, 1) \in SpaceChars THEN ""
  ELSE CharAt(s, 1) \o UpToSpace(SubSeq(s, 2, Len(s)))

FirstToken(s) == UpToSpace(LStrip(s))

\* Line 209: the link _default_reply writes when it is given none
ServicesUrl(council_name) ==
  "https://www." \o FirstToken(Lower(council_name)) \o ".vic.gov.au/services"

\* _default_reply(council_name, links): split()[0] raises IndexError for a
\* name without a token; the links with a url are written escaped
\* (l.get raises on a str or None, l['title'] on a dict without a title)
default_reply(council_name, links) ==
  LET used == IF links # <<>> THEN links
              ELSE <<Entry(council_name \o " services", ServicesUrl(council_name))>>
      kept == SelectSeq(used, LAMBDA l : l.kind = "dict" /\ Truthy(l.url))
  IN IF links = <<>> /\ Strip(council_name) = "" THEN ReplyRaised("_default_reply")
     ELSE IF \E i \in 1..Len(used) : used[i].kind # "dict"
       THEN ReplyRaised("_default_reply")
     ELSE IF \E i \in 1..Len(kept) : kept[i].title.none
       THEN ReplyRaised("_default_reply")
     ELSE [NoReply EXCEPT
             !.fn = "_default_reply",
             !.default = TRUE,
             !.council = HtmlEscape(council_name),
             !.items = [i \in 1..Len(kept) |->
                          [href |-> HtmlEscape(kept[i].url.s),
                           text |-> HtmlEscape(kept[i].title.s)]]]

\* Lines 239-240, 256-257, 263-264: the review note is added to a body that
\* does not hold its words
ReviewNote == "<p><em>Auto-drafted reply. Please review before sending.</em></p>"
WithReviewNote(html_body) ==
  IF Contains(html_body, "Auto-drafted reply") THEN html_body
  ELSE html_body \o ReviewNote

\* Lines 248-253: the citations of the links of the dict
RECURSIVE DictCitations(_)
DictCitations(links) ==
  IF links = <<>> THEN <<>>
  ELSE LET l == Head(links)
           rest == DictCitations(Tail(links))
       IN IF l.kind = "dict" /\ Truthy(l.url)
            THEN <<(IF Truthy(l.title) THEN l.title.s ELSE l.url.s) \o " | " \o l.url.s>>
                   \o rest
          ELSE IF l.kind = "str" THEN <<l.title.s>> \o rest
          ELSE rest

\* Lines 271-274: the except handler calls _default_reply once more
Handler(council_name) ==
  LET d == default_reply(council_name, <<>>)
  IN IF d.raised THEN ReplyRaised("build_cited_reply")
     ELSE [d EXCEPT !.fn = "build_cited_reply"]

\* Lines 267-269: no source, or a result of no known shape
Fallback(council_name) ==
  LET d == default_reply(council_name, <<>>)
  IN IF d.raised THEN Handler(council_name)
     ELSE [d EXCEPT !.fn = "build_cited_reply",
                    !.citations = <<council_name \o " services | "
                                      \o ServicesUrl(council_name)>>]

\* The body get_answer_fn returned, with the review note
SourceReply(html_body, citations) ==
  [NoReply EXCEPT !.fn = "build_cited_reply", !.body = WithReviewNote(html_body),
                  !.citations = citations]

\* build_cited_reply(email_text, council_name, get_answer_fn), lines 217-274
build_cited_reply(email_text, council_name, get_answer_fn) ==
  IF get_answer_fn.kind = "absent" THEN Fallback(council_name)
  ELSE IF get_answer_fn.kind = "raises" THEN Handler(council_name)
  ELSE IF get_answer_fn.shape = "tuple" /\ ~get_answer_fn.html.none
    THEN SourceReply(get_answer_fn.html.s, get_answer_fn.citations)
  ELSE IF get_answer_fn.shape = "dict"
    THEN IF Truthy(get_answer_fn.html)
           THEN SourceReply(get_answer_fn.html.s, DictCitations(get_answer_fn.links))
         ELSE LET d == default_reply(council_name, <<>>)
              IN IF d.raised THEN Handler(council_name)
                 ELSE [d EXCEPT !.fn = "build_cited_reply",
                                !.citations = DictCitations(get_answer_fn.links)]
  ELSE IF get_answer_fn.shape = "str" THEN SourceReply(get_answer_fn.html.s, <<>>)
  ELSE Fallback(council_name)

(***************************************************************************)
(* State                                                                   *)
(***************************************************************************)

VARIABLES
  AUTO_SEND_ALL,      \* worker_autoreply.py:38
  AUTO_SEND_GREEN,    \* worker_autoreply.py:39
  GREEN_TOPICS,       \* worker_autoreply.py:95
  text,               \* the text handed to the classifiers (None or a str)
  matching,           \* the rules of TOPIC_RULES that _classify found to match it
  hits,               \* what _classify returned for it
  topic_res,          \* what classify_topic returned for it
  risk_res,           \* what the worker's classify_risk returned for it
  drafts_risk_res,    \* what drafts_module.classify_risk returned for it
  can_autosend,       \* the autosend decision for it
  tpc,                \* how far the text has gone through the pipeline
  SKIP_NOREPLY,       \* worker_autoreply.py:49
  retriever_imported, \* whether the import of line 149 succeeded
  inbox,              \* the mailbox: message id -> subject, sender, body text
  analysis,           \* kind of message -> what the pure functions return on it
  is_read,            \* message id -> the message's isRead flag
  categories,         \* message id -> the message's categories
  drafts,             \* message id -> number of reply drafts created for it
  sent,               \* message id -> number of replies sent for it
  processed_ids,      \* the worker's in-memory set (line 92)
  state_file,         \* the file at STATE_PATH
  batch,              \* the unread messages of this poll cycle still to process
  calls,              \* the Graph calls of the latest process_message call
  log,                \* what the worker logged last
  email_text,         \* the text handed to answer (None or a str)
  council_name,       \* the council identifier handed to answer (None or a str)
  catalog_file,       \* the file at CATALOG_PATH
  catalog,            \* the catalog _load_catalog returned to the call
  answer_res,         \* what the call of answer came to
  apc,                \* whether answer has been called
  get_answer_fn,      \* the answer source handed to a composing function
  reply,              \* what the composing function came to
  cpc,                \* whether a composing function has been called
  toks,               \* ingest.chunk: the tokens of the text
  max_tokens,         \* ingest.chunk: its max_tokens
  overlap,            \* ingest.chunk: its overlap
  chunk_i,            \* ingest.chunk: its i
  yielded,            \* ingest.chunk: the tokens of the chunk it yielded last
  kpc                 \* ingest.chunk: "off", "loop", "yielded" (suspended) or "done"

policy_vars == <<AUTO_SEND_ALL, AUTO_SEND_GREEN, GREEN_TOPICS>>
text_vars == <<text, matching, hits, topic_res, risk_res, drafts_risk_res, can_autosend, tpc>>
env_vars == <<SKIP_NOREPLY, retriever_imported, inbox, analysis>>
graph_vars == <<is_read, categories, drafts, sent>>
worker_vars == <<processed_ids, state_file, batch, calls, log>>
answer_vars == <<email_text, council_name, catalog_file, catalog, answer_res, apc>>
compose_vars == <<get_answer_fn, reply, cpc>>
chunk_vars == <<toks, max_tokens, overlap, chunk_i, yielded, kpc>>
vars == <<policy_vars, text_vars, env_vars, graph_vars, worker_vars, answer_vars,
          compose_vars, chunk_vars>>

(***************************************************************************)
(* Inputs                                                                  *)
(***************************************************************************)

\* Phrases the texts are put together from
Words ==
  {"book hard rubbish bin", "pay rates", "library", "contact", "help information",
   "FOI Accident", "urgent complaint", "0412345678", "graffiti", "police",
   "refund 61412345678"}

MaxTokens == 2

RECURSIVE JoinWords(_)
JoinWords(ws) ==
  IF ws = <<>> THEN ""
  ELSE IF Len(ws) = 1 THEN ws[1]
  ELSE ws[1] \o " " \o JoinWords(Tail(ws))

Texts ==
  {None} \cup {Str(JoinWords(ws)) : ws \in UNION {[1..n -> Words] : n \in 0..MaxTokens}}

\* GREEN_TOPICS as configured: the default of line 40, one topic, or none
DefaultGreenTopics ==
  {"waste", "rates", "libraries", "animals", "opening hours", "general info"}

GreenTopicSets == { DefaultGreenTopics, {"rates"}, {} }

PolicyInit ==
  /\ AUTO_SEND_ALL \in BOOLEAN
  /\ AUTO_SEND_GREEN \in BOOLEAN
  /\ GREEN_TOPICS \in GreenTopicSets

NoResult == [risk |-> "", reasons |-> <<>>]
NoTopic == [topic |-> "", is_green |-> FALSE]


\* answer_res before answer is called
NoAnswer ==
  [raised |-> FALSE, escalated |-> FALSE, council |-> "", wanted |-> <<>>, links |-> <<>>,
   helper |-> None, items |-> <<>>, snippet |-> "", citations |-> <<>>]

\* answer is not called
AnswerOff ==
  /\ email_text = None
  /\ council_name = None
  /\ catalog_file = NoFile
  /\ catalog = EmptyMap
  /\ answer_res = NoAnswer
  /\ apc = "off"

\* No reply is composed
ComposeOff ==
  /\ get_answer_fn = NoSource
  /\ reply = NoReply
  /\ cpc = "off"

\* chunk is not called (line 502: max_tokens=500, overlap=80)
ChunkOff ==
  /\ toks = <<>>
  /\ max_tokens = 500
  /\ overlap = 80
  /\ chunk_i = 0
  /\ yielded = <<>>
  /\ kpc = "off"

\* No worker is running: the specifications of the classifiers alone
WorkerOff ==
  /\ SKIP_NOREPLY = TRUE
  /\ retriever_imported = TRUE
  /\ inbox = <<>>
  /\ analysis = <<>>
  /\ is_read = <<>>
  /\ categories = <<>>
  /\ drafts = <<>>
  /\ sent = <<>>
  /\ processed_ids = {}
  /\ state_file = [ok |-> FALSE, ids |-> {}]
  /\ batch = <<>>
  /\ calls = <<>>
  /\ log = ""

\* No text is in the pipeline: the specification of the worker
TextOff ==
  /\ text = None
  /\ matching = {}
  /\ hits = <<>>
  /\ topic_res = NoTopic
  /\ risk_res = NoResult
  /\ drafts_risk_res = NoResult
  /\ can_autosend = FALSE
  /\ tpc = "off"

(***************************************************************************)
(* The classifiers and the gate applied to one text                        *)
(***************************************************************************)

\* The policy when the environment sets none of the three (lines 38-40)
PolicyDefault ==
  /\ AUTO_SEND_ALL = FALSE
  /\ AUTO_SEND_GREEN = TRUE
  /\ GREEN_TOPICS = DefaultGreenTopics

TextInit ==
  /\ AnswerOff
  /\ ComposeOff
  /\ ChunkOff
  /\ PolicyDefault
  /\ text \in Texts
  /\ matching = {}
  /\ hits = <<>>
  /\ topic_res = NoTopic
  /\ risk_res = NoResult
  /\ drafts_risk_res = NoResult
  /\ can_autosend = FALSE
  /\ tpc = "input"
  /\ WorkerOff

\* retriever_catalog._classify(text)
Classify ==
  /\ tpc = "input"
  /\ \E matches \in {MatchingRules(Lower(OrEmpty(text)))} :
       /\ matching' = matches
       /\ hits' = ClassifyResult(matches)
  /\ tpc' = "classified"
  /\ UNCHANGED <<policy_vars, env_vars, answer_vars, compose_vars,
                 chunk_vars, graph_vars, worker_vars,
                 text, topic_res, risk_res, drafts_risk_res, can_autosend>>

\* drafts_module.classify_risk(text)
DraftsClassifyRisk ==
  /\ tpc = "classified"
  /\ drafts_risk_res' = drafts_classify_risk(text)
  /\ tpc' = "drafts_risk"
  /\ UNCHANGED <<policy_vars, env_vars, answer_vars, compose_vars,
                 chunk_vars, graph_vars, worker_vars,
                 text, matching, hits, topic_res, risk_res, can_autosend>>

\* worker_autoreply.classify_topic(text)
ClassifyTopic ==
  /\ tpc = "drafts_risk"
  /\ topic_res' = classify_topic(text, GREEN_TOPICS)
  /\ tpc' = "topic"
  /\ UNCHANGED <<policy_vars, env_vars, answer_vars, compose_vars,
                 chunk_vars, graph_vars, worker_vars,
                 text, matching, hits, risk_res, drafts_risk_res, can_autosend>>

\* worker_autoreply.classify_risk(text)
ClassifyRisk ==
  /\ tpc = "topic"
  /\ risk_res' = classify_risk(text)
  /\ tpc' = "risk"
  /\ UNCHANGED <<policy_vars, env_vars, answer_vars, compose_vars,
                 chunk_vars, graph_vars, worker_vars,
                 text, matching, hits, topic_res, drafts_risk_res, can_autosend>>

\* the autosend decision of process_message
Decide ==
  /\ tpc = "risk"
  /\ can_autosend' =
       CanAutosend(AUTO_SEND_ALL, AUTO_SEND_GREEN, topic_res.is_green, risk_res.risk)
  /\ tpc' = "decided"
  /\ UNCHANGED <<policy_vars, env_vars, answer_vars, compose_vars,
                 chunk_vars, graph_vars, worker_vars,
                 text, matching, hits, topic_res, risk_res, drafts_risk_res>>

TextNext == Classify \/ DraftsClassifyRisk \/ ClassifyTopic \/ ClassifyRisk \/ Decide

SpecText == TextInit /\ [][TextNext]_vars

(***************************************************************************)
(* The worker's gate applied to one text, under every policy               *)
(***************************************************************************)

GateInit ==
  /\ AnswerOff
  /\ ComposeOff
  /\ ChunkOff
  /\ PolicyInit
  /\ text \in Texts
  /\ matching = {}
  /\ hits = <<>>
  /\ topic_res = NoTopic
  /\ risk_res = NoResult
  /\ drafts_risk_res = NoResult
  /\ can_autosend = FALSE
  /\ tpc = "drafts_risk"
  /\ WorkerOff

GateNext == ClassifyTopic \/ ClassifyRisk \/ Decide

SpecGate == GateInit /\ [][GateNext]_vars

(***************************************************************************)
(* worker_autoreply.py: the polling worker                                 *)
(***************************************************************************)

MAILBOX_ADDRESS == "Info@Council.gov"
CATEGORY_REPLIED == "AutoReplied"
CATEGORY_NEEDSREV == "Needs review"

MsgIds == {1, 2}

\* What the mailbox can hold: subject, sender address and body text
MsgKinds ==
  { [subject |-> "Rates ",           sender |-> "resident@example.com",
     body_text |-> "how do I pay rates at the library"],
    [subject |-> "Help",             sender |-> " resident@example.com",
     body_text |-> "this is an Accident with injury"],
    [subject |-> "Library",          sender |-> "INFO@council.gov",
     body_text |-> "library hours"],
    [subject |-> "Automatic Reply: away", sender |-> "resident@example.com",
     body_text |-> "I am away"],
    [subject |-> "Your invoice",     sender |-> "No-Reply@vendor.com",
     body_text |-> "pay rates"] }

\* The cap on the reply drafts created for one message
MaxDrafts == 2

\* load_state()
load_state(file) == IF file.ok THEN file.ids ELSE {}

\* save_state(s): the file after the call.  The write succeeds; or open() raises
\* and the file is as before; or open() has truncated the file and the dump
\* fails or is cut short, leaving a file json.load rejects.  The exception is
\* swallowed in either case.
SaveOutcomes == {"ok", "open_fails", "dump_fails"}
save_state(ids, file, outcome) ==
  CASE outcome = "ok" -> [ok |-> TRUE, ids |-> ids]
    [] outcome = "open_fails" -> file
    [] outcome = "dump_fails" -> [ok |-> FALSE, ids |-> {}]

\* The Graph calls of process_message that raise on failure
Raises ==
  {"none", "get_message_body", "createReply", "update_draft", "send_draft", "mark_read"}

\* The loop guards of process_message
IsSelf(sender) ==
  sender # "" /\ MAILBOX_ADDRESS # "" /\ Lower(sender) = Lower(MAILBOX_ADDRESS)

\* What process_message computes from a message alone: its stripped subject
\* and sender, the loop guards' tests, classify_topic's topic and
\* classify_risk's result on f"{subject}\n{body_text}"; and whether that text
\* holds a RED trigger
Analyse(kind) ==
  LET subject == Strip(kind.subject)
      sender == Strip(kind.sender)
      full == subject \o "\n" \o kind.body_text
      rr == classify_risk(Str(full))
  IN [ subject |-> subject, sender |-> sender,
       topic |-> classify_topic(Str(full), {}).topic,
       risk |-> rr.risk, reasons |-> rr.reasons,
       is_self |-> IsSelf(sender),
       auto_reply |-> looks_like_auto_reply(Str(subject)),
       noreply |-> looks_like_noreply(Str(sender)),
       red_trigger |-> AnyIn(RED_TRIGGERS, Lower(full)) ]

RECURSIVE AnalyseAll(_)
AnalyseAll(kinds) ==
  IF kinds = {} THEN <<>>
  ELSE LET kind == CHOOSE k \in kinds : TRUE
       IN (kind :> Analyse(kind)) @@ AnalyseAll(kinds \ {kind})

\* The loop-safety tests without the test of the worker's own address
LoopGuards_NoSelfTest(a, skip_noreply) ==
  a.auto_reply \/ (skip_noreply /\ a.noreply)

\* The three loop-safety tests of process_message
LoopGuards(a, skip_noreply) ==
  a.is_self \/ a.auto_reply \/ (skip_noreply /\ a.noreply)

\* The locals of process_message with can_autosend true whatever line 261 finds
Locals_AlwaysSends(m) ==
  LET a == analysis[inbox[m]]
  IN [ guarded |-> LoopGuards(a, SKIP_NOREPLY),
       topic |-> a.topic, topic_is_green |-> a.topic \in GREEN_TOPICS,
       risk |-> a.risk, reasons |-> a.reasons,
       can_autosend |-> TRUE ]

\* The locals of process_message for message m once it has been fetched
Locals(m) ==
  LET a == analysis[inbox[m]]
      topic_is_green == a.topic \in GREEN_TOPICS
  IN [ guarded |-> LoopGuards(a, SKIP_NOREPLY),
       topic |-> a.topic, topic_is_green |-> topic_is_green,
       risk |-> a.risk, reasons |-> a.reasons,
       can_autosend |-> CanAutosend(AUTO_SEND_ALL, AUTO_SEND_GREEN, topic_is_green, a.risk) ]

\* process_message without its first test
AlreadyProcessed_NotTested(m, ids) == FALSE

\* if msg_id in processed_ids: return
AlreadyProcessed(m, ids) == m \in ids

\* The unread messages, latest first
RECURSIVE Descending(_)
Descending(ids) ==
  IF ids = {} THEN <<>>
  ELSE LET top == CHOOSE i \in ids : \A j \in ids : j <= i
       IN <<top>> \o Descending(ids \ {top})

\* "$top": "15" of list_unread_messages
TOP == 15

\* The unread messages of the mailbox, latest first, TOP at most
list_unread_messages == Take(Descending({m \in DOMAIN is_read : ~is_read[m]}), TOP)

\* The pure functions are tabulated once on the kinds of message, and
\* process_message reads the table
WorkerInit ==
  /\ AnswerOff
  /\ ComposeOff
  /\ ChunkOff
  /\ analysis = AnalyseAll(MsgKinds)
  /\ PolicyInit
  \* line 261 reads GREEN_TOPICS and AUTO_SEND_GREEN only with AUTO_SEND_ALL off,
  \* and the topic's membership matters only with AUTO_SEND_GREEN on
  /\ AUTO_SEND_ALL => AUTO_SEND_GREEN
  /\ (AUTO_SEND_ALL \/ ~AUTO_SEND_GREEN) => GREEN_TOPICS = DefaultGreenTopics
  /\ TextOff
  /\ SKIP_NOREPLY \in BOOLEAN
  /\ retriever_imported \in BOOLEAN
  /\ inbox \in [MsgIds -> MsgKinds]
  \* the value of SKIP_NOREPLY matters at line 252 only for a no-reply sender
  /\ (\A m \in MsgIds : ~analysis[inbox[m]].noreply) => SKIP_NOREPLY
  /\ is_read = [m \in MsgIds |-> FALSE]
  /\ categories = [m \in MsgIds |-> <<>>]
  /\ drafts = [m \in MsgIds |-> 0]
  /\ sent = [m \in MsgIds |-> 0]
  /\ state_file = [ok |-> FALSE, ids |-> {}]
  /\ processed_ids = load_state(state_file)
  /\ batch = <<>>
  /\ calls = <<>>
  /\ log = "Worker started"

\* One pass of the while loop of main up to the for loop: get_token and
\* list_unread_messages, either of which may raise (logged, then sleep)
Poll ==
  /\ batch = <<>>
  /\ \E ok \in BOOLEAN :
       /\ batch' = IF ok THEN list_unread_messages ELSE <<>>
       /\ log' = IF ~ok THEN "HTTP error"
                 ELSE IF list_unread_messages = <<>> THEN "No unread messages"
                 ELSE log
  /\ UNCHANGED <<policy_vars, text_vars, env_vars, answer_vars, compose_vars,
                 chunk_vars, graph_vars,
                 processed_ids, state_file, calls>>

\* processed_ids.add(msg_id); save_state(processed_ids)
Record(m) ==
  /\ processed_ids' = processed_ids \cup {m}
  /\ \E outcome \in SaveOutcomes :
       state_file' = save_state(processed_ids \cup {m}, state_file, outcome)

\* add_categories(token, msg_id, cats) inside try/except: pass.  The PATCH
\* replaces the message's categories, or has no effect
add_categories(m, cats) ==
  \E ok \in BOOLEAN :
    categories' = IF ok THEN [categories EXCEPT ![m] = cats] ELSE categories

\* process_message(token, m) for the next message of the batch.  `raises` is
\* the first Graph call that raises in this run of the handler, if any.
ProcessMessage ==
  /\ batch # <<>>
  /\ LET m == Head(batch)
         d == Locals(m)
     IN
     /\ batch' = Tail(batch)
     /\ \E raises \in Raises :
          IF AlreadyProcessed(m, processed_ids) THEN
            /\ raises = "none"
            /\ calls' = <<>>
            /\ UNCHANGED <<graph_vars, processed_ids, state_file, log>>
          ELSE IF raises = "get_message_body" THEN
            /\ calls' = <<"get_message_body">>
            /\ log' = "HTTP error"
            /\ UNCHANGED <<graph_vars, processed_ids, state_file>>
          ELSE IF d.guarded THEN
            /\ raises = "none"
            /\ calls' = <<"get_message_body">>
            /\ log' = "Skip"
            /\ Record(m)
            /\ UNCHANGED graph_vars
          ELSE IF retriever_imported THEN
            \* answer(email_text, council_name) is called with query=, topic=,
            \* council=, format=: TypeError, caught at line 289
            /\ raises = "none"
            /\ calls' = <<"get_message_body">>
            /\ log' = "Error"
            /\ UNCHANGED <<graph_vars, processed_ids, state_file>>
          ELSE IF raises = "createReply" THEN
            /\ calls' = <<"get_message_body", "create_reply_draft">>
            /\ log' = "HTTP error"
            /\ UNCHANGED <<graph_vars, processed_ids, state_file>>
          ELSE
            /\ drafts[m] < MaxDrafts
            /\ drafts' = [drafts EXCEPT ![m] = @ + 1]
            /\ IF raises = "update_draft" THEN
                 /\ calls' = <<"get_message_body", "create_reply_draft">>
                 /\ log' = "HTTP error"
                 /\ UNCHANGED <<is_read, categories, sent, processed_ids, state_file>>
               ELSE IF ~d.can_autosend THEN
                 /\ raises = "none"
                 /\ calls' = <<"get_message_body", "create_reply_draft", "add_categories">>
                 /\ log' = "Draft created for review"
                 /\ add_categories(m, <<CATEGORY_NEEDSREV>>)
                 /\ Record(m)
                 /\ UNCHANGED <<is_read, sent>>
               ELSE IF raises = "send_draft" THEN
                 /\ calls' = <<"get_message_body", "create_reply_draft", "send_draft">>
                 /\ log' = "HTTP error"
                 /\ UNCHANGED <<is_read, categories, sent, processed_ids, state_file>>
               ELSE
                 /\ sent' = [sent EXCEPT ![m] = @ + 1]
                 /\ calls' = <<"get_message_body", "create_reply_draft", "send_draft",
                               "add_categories", "mark_read">>
                 /\ add_categories(m, <<CATEGORY_REPLIED>>)
                 /\ IF raises = "mark_read" THEN
                      /\ log' = "Error"
                      /\ UNCHANGED <<is_read, processed_ids, state_file>>
                    ELSE
                      /\ raises = "none"
                      /\ log' = "Auto-sent reply"
                      \* the PATCH's status is not looked at
                      /\ \E ok \in BOOLEAN : is_read' = [is_read EXCEPT ![m] = ok]
                      /\ Record(m)
  /\ UNCHANGED <<policy_vars, text_vars, env_vars, answer_vars, compose_vars, chunk_vars>>

\* The process stops (at any point between two messages) and is started again:
\* line 92 runs anew and main logs its start
Restart ==
  /\ processed_ids' = load_state(state_file)
  /\ batch' = <<>>
  /\ calls' = <<>>
  /\ log' = "Worker started"
  /\ UNCHANGED <<policy_vars, text_vars, env_vars, answer_vars, compose_vars,
                 chunk_vars, graph_vars, state_file>>

Next == Poll \/ ProcessMessage \/ Restart

Spec == WorkerInit /\ [][Next]_vars

(***************************************************************************)
(* The worker on a mailbox with a backlog of unread messages               *)
(***************************************************************************)

\* The messages the mailbox holds at most
MaxMailbox == 16

\* The unread messages the worker starts with: the oldest is new to the
\* worker; the others were drafted for review in an earlier run and recorded
Backlog == 1..(MaxMailbox - 1)

\* A message that is drafted for review unless AUTO_SEND_ALL is on
ReviewKind == CHOOSE kind \in MsgKinds : kind.subject = "Help"

\* The worker starts (line 92 loads the state file) on a mailbox in which the
\* messages drafted for review by the earlier run are still unread
BacklogInit ==
  /\ AnswerOff
  /\ ComposeOff
  /\ ChunkOff
  /\ analysis = AnalyseAll(MsgKinds)
  /\ AUTO_SEND_ALL = FALSE
  /\ AUTO_SEND_GREEN \in BOOLEAN
  /\ GREEN_TOPICS = DefaultGreenTopics
  /\ TextOff
  /\ SKIP_NOREPLY = TRUE
  /\ retriever_imported \in BOOLEAN
  /\ \E kind \in MsgKinds : inbox = [m \in Backlog |-> IF m = 1 THEN kind ELSE ReviewKind]
  /\ is_read = [m \in Backlog |-> FALSE]
  /\ categories = [m \in Backlog |-> IF m = 1 THEN <<>> ELSE <<CATEGORY_NEEDSREV>>]
  /\ drafts = [m \in Backlog |-> IF m = 1 THEN 0 ELSE 1]
  /\ sent = [m \in Backlog |-> 0]
  /\ state_file = [ok |-> TRUE, ids |-> Backlog \ {1}]
  /\ processed_ids = load_state(state_file)
  /\ batch = <<>>
  /\ calls = <<>>
  /\ log = "Worker started"

\* A new message arrives in the Inbox, unread
Arrive ==
  /\ \E m \in 1..MaxMailbox :
       /\ m \notin DOMAIN inbox
       /\ m - 1 \in DOMAIN inbox
       /\ \E kind \in MsgKinds : inbox' = (m :> kind) @@ inbox
       /\ is_read' = (m :> FALSE) @@ is_read
       /\ categories' = (m :> <<>>) @@ categories
       /\ drafts' = (m :> 0) @@ drafts
       /\ sent' = (m :> 0) @@ sent
  /\ UNCHANGED <<policy_vars, text_vars, SKIP_NOREPLY, retriever_imported, analysis,
                 answer_vars, compose_vars, chunk_vars, worker_vars>>

BacklogNext == Poll \/ ProcessMessage \/ Arrive

SpecBacklog == BacklogInit /\ [][BacklogNext]_vars

(***************************************************************************)
(* A call of retriever_catalog.answer                                      *)
(***************************************************************************)

\* The texts a caller hands to answer
AnswerTexts ==
  {None, Str(""), Str("book hard rubbish"), Str("hard rubbish"),
   Str("pay rates library"), Str("Booking hard rubbish & rates bin"),
   Str("library"), Str("contact"), Str(" pool\n<b> "), Str("privacy rates")}

\* The council identifiers a caller hands to answer
CouncilNames ==
  {None, Str(""), Str("Wyndham City Council"), Str("wyndham"), Str("City of WYNDHAM"),
   Str("not-a-real-council"), Str("Other Shire"), Str("A & B <Shire>")}

OtherUrl == "https://other.example/libraries"
BookingUrl == "https://www.wyndham.vic.gov.au/book-hard-green-waste-collection"

\* One council of a file of shape A
OneCouncil(council, base, topics) == BlobA(council :> CouncilBlob(base, topics))

\* What the file at CATALOG_PATH may hold
CatalogFiles ==
  {NoFile, BadFile, JsonFile(BlobNotDict), JsonFile(BlobA(EmptyMap)),
   JsonFile(OneCouncil("Wyndham City Council", None,
                       TopicsDict("libraries" :> EntryNoTitle(OtherUrl)))),
   JsonFile(OneCouncil("Wyndham City Council", None,
                       TopicsDict("libraries" :> EntryString))),
   JsonFile(OneCouncil("Wyndham City Council", None,
                       TopicsDict("libraries" :> EntryNull @@ "contact" :> EntryNull))),
   JsonFile(OneCouncil("Wyndham City Council", None,
                       TopicsDict("libraries" :> Entry("Libraries", "")
                                    @@ "contact" :> EntryNoUrl("Contact us")))),
   JsonFile(OneCouncil("Wyndham City Council", Str("https://wyndham.example"),
                       TopicsDict("hard_waste" :> Entry("Hard rubbish", BookingUrl)
                                    @@ "libraries" :> Entry("Our <libraries>", OtherUrl)))),
   JsonFile(OneCouncil("Other Shire", Str("https://other.example"),
                       TopicsDict("libraries" :> Entry("Other libraries", OtherUrl)
                                    @@ "hard_waste" :> Entry("Other hard waste", OtherUrl)))),
   JsonFile(OneCouncil("Other Shire", None, TopicsNull)),
   JsonFile(OneCouncil("Other Shire", None, TopicsAbsent)),
   JsonFile(OneCouncil("Other Shire", None, TopicsOther)),
   JsonFile(BlobA("Other Shire" :> CouncilNotDict)),
   JsonFile(BlobA("Wyndham City Council" :>
                     CouncilBlob(Str(""), TopicsDict("rates_pay" :> Entry("Rates", OtherUrl)))
                  @@ "Other Shire" :>
                     CouncilBlob(None, TopicsDict("contact" :> Entry("Contact", OtherUrl))))),
   JsonFile(BlobB(Str("https://wyndham.example"),
                  TopicsDict("libraries" :> Entry("Libraries", OtherUrl)
                               @@ "local_page" :> Entry("Local page", OtherUrl)))),
   JsonFile(BlobB(None, TopicsNull))}

AnswerInit ==
  /\ email_text \in AnswerTexts
  /\ council_name \in CouncilNames
  /\ catalog_file = NoFile
  /\ catalog = EmptyMap
  /\ answer_res = NoAnswer
  /\ apc = "start"
  /\ ComposeOff
  /\ ChunkOff
  /\ PolicyDefault
  /\ TextOff
  /\ WorkerOff

\* answer(email_text, council_name): _load_catalog reads the file, then the
\* call returns (body, citations) or raises
Answer ==
  /\ apc = "start"
  /\ \E cls \in {ClassifyEmail(email_text)} :
       answer_res' = answer(email_text, council_name, catalog_file, cls)
  /\ catalog' = load_catalog(catalog_file)
  /\ apc' = "answered"
  /\ UNCHANGED <<policy_vars, text_vars, env_vars, graph_vars, worker_vars,
                 compose_vars, chunk_vars, email_text, council_name, catalog_file>>

\* The file at CATALOG_PATH is written, replaced or removed before the call
\* (build_catalog.py writes it; the repository ships none)
WriteCatalog ==
  /\ apc = "start"
  /\ catalog_file' \in CatalogFiles \ {catalog_file}
  /\ UNCHANGED <<policy_vars, text_vars, env_vars, graph_vars, worker_vars,
                 compose_vars, chunk_vars, email_text, council_name, catalog, answer_res, apc>>

AnswerNext == Answer \/ WriteCatalog

SpecAnswer == AnswerInit /\ [][AnswerNext]_vars

(***************************************************************************)
(* The specification of the composing functions: build_email_html,         *)
(* _default_reply, build_cited_reply and the quoted block of answer        *)
(***************************************************************************)

\* s written n times
RECURSIVE Repeat(_, _)
Repeat(s, n) ==
  IF n = 0 THEN ""
  ELSE IF n = 1 THEN s
  ELSE Repeat(s, n \div 2) \o Repeat(s, n - n \div 2)

\* An enquiry longer than the slice of line 384 (960 characters)
LongText == Repeat("Bins &  <rates>, 'pool'\n", 40)

\* The enquiry texts handed to the composing functions
ComposeTexts ==
  {None, Str(""), Str(" pool\n<b> "), Str("a  \"b\" <c> & d\n\n e"),
   Str("Tom & Jerry's <bin>"), Str(LongText)}

\* The council names handed to _default_reply and build_cited_reply
ComposeCouncils ==
  {"", "  ", "Wyndham City Council", "A & B <Shire>", "O'Brien \"Shire\""}

\* The answer sources handed to build_cited_reply, and what they return
AnswerSources ==
  {NoSource, RaisingSource, ReturnsOther,
   ReturnsTuple(None, <<>>),
   ReturnsTuple(Str("<p>x</p>"), <<"a | b">>),
   ReturnsTuple(Str("<p>Auto-drafted reply</p>"), <<>>),
   ReturnsStr("<p>s</p>"),
   ReturnsStr(""),
   ReturnsDict(None, <<>>),
   ReturnsDict(Str("<p>A</p>"), <<Entry("Rates", "https://x.example/rates")>>),
   ReturnsDict(Str("<p>A</p>"), <<Entry("T<1> \"x\"", "https://x.example/?a=1&b='2'")>>),
   ReturnsDict(Str(""), <<Entry("Rates", "https://x.example/rates"),
                          EntryNoTitle("https://x.example/?a=1&b='2'"),
                          LinkString("s | t"), EntryNoUrl("Rates"), EntryNull>>)}

ComposeInit ==
  /\ email_text \in ComposeTexts
  /\ council_name \in {Str(c) : c \in ComposeCouncils}
  /\ get_answer_fn \in AnswerSources
  /\ reply = NoReply
  /\ cpc = "start"
  /\ ChunkOff
  /\ catalog_file = NoFile
  /\ catalog = EmptyMap
  /\ answer_res = NoAnswer
  /\ apc = "off"
  /\ PolicyDefault
  /\ TextOff
  /\ WorkerOff

\* What a composing action leaves alone
ComposeFrame ==
  UNCHANGED <<policy_vars, text_vars, env_vars, graph_vars, worker_vars, answer_vars,
              chunk_vars, get_answer_fn>>

\* build_cited_reply(email_text, council_name, get_answer_fn)
BuildCitedReply ==
  /\ cpc = "start"
  /\ reply' = build_cited_reply(email_text, council_name.s, get_answer_fn)
  /\ cpc' = "done"
  /\ ComposeFrame

\* build_email_html(body_text, generated), generated being what the answer
\* source returned (worker_autoreply.py:265-271)
BuildEmailHtml ==
  /\ cpc = "start"
  /\ get_answer_fn.kind = "returns"
  /\ reply' = build_email_html(email_text, get_answer_fn)
  /\ cpc' = "done"
  /\ ComposeFrame

\* _default_reply(council_name) and _default_reply(council_name, links)
DefaultReply ==
  /\ cpc = "start"
  /\ \E links \in {<<>>, get_answer_fn.links} :
       reply' = default_reply(council_name.s, links)
  /\ cpc' = "done"
  /\ ComposeFrame

\* The quoted block answer writes for email_text
QuoteSnippet ==
  /\ cpc = "start"
  /\ reply' = [NoReply EXCEPT !.fn = "answer", !.quote = Snippet(email_text)]
  /\ cpc' = "done"
  /\ ComposeFrame

ComposeNext == BuildCitedReply \/ BuildEmailHtml \/ DefaultReply \/ QuoteSnippet

SpecCompose == ComposeInit /\ [][ComposeNext]_vars

(***************************************************************************)
(* The specification of ingest.chunk: one generator, resumed by its        *)
(* consumer (the for loop of build_for, line 547) until it is exhausted    *)
(***************************************************************************)

\* The longest token sequence and the largest max_tokens of the model
MaxToks == 7
MaxChunk == 4

\* Python's index a of a slice of a sequence of n items
SliceIndex(a, n) ==
  IF a < 0 THEN (IF n + a < 0 THEN 0 ELSE n + a)
  ELSE IF a > n THEN n ELSE a

\* seq[a:b]
Slice(seq, a, b) == SubSeq(seq, SliceIndex(a, Len(seq)) + 1, SliceIndex(b, Len(seq)))

\* ENC.encode(text): a text of n tokens, each token told from the others by
\* its place
Encoded(n) == [k \in 1..n |-> k]

\* chunk(text, max_tokens, overlap) is called and runs to its while loop
\* (line 503); the overlap is smaller than max_tokens, as in the defaults
ChunkInit ==
  /\ toks \in {Encoded(n) : n \in 0..MaxToks}
  /\ max_tokens \in 1..MaxChunk
  /\ overlap \in 0..(max_tokens - 1)
  /\ chunk_i = 0
  /\ yielded = <<>>
  /\ kpc = "loop"
  /\ AnswerOff
  /\ ComposeOff
  /\ PolicyDefault
  /\ TextOff
  /\ WorkerOff

\* What a step of chunk leaves alone
ChunkFrame ==
  UNCHANGED <<policy_vars, text_vars, env_vars, graph_vars, worker_vars, answer_vars,
              compose_vars, toks, max_tokens, overlap>>

\* min(i + max_tokens, len(toks)) of line 505
ChunkEnd ==
  IF chunk_i + max_tokens < Len(toks) THEN chunk_i + max_tokens ELSE Len(toks)

\* Lines 504-506: the loop condition holds; the generator yields toks[i:j] and
\* is suspended there
Yield ==
  /\ kpc = "loop"
  /\ chunk_i < Len(toks)
  /\ yielded' = Slice(toks, chunk_i, ChunkEnd)
  /\ kpc' = "yielded"
  /\ UNCHANGED chunk_i
  /\ ChunkFrame

\* Line 506: the consumer asks for the next chunk; i = j - overlap, and the
\* generator is back at the loop condition
Resume ==
  /\ kpc = "yielded"
  /\ chunk_i' = ChunkEnd - overlap
  /\ kpc' = "loop"
  /\ UNCHANGED yielded
  /\ ChunkFrame

\* Line 504: the loop condition fails, the generator is exhausted
Exhaust ==
  /\ kpc = "loop"
  /\ ~(chunk_i < Len(toks))
  /\ kpc' = "done"
  /\ UNCHANGED <<chunk_i, yielded>>
  /\ ChunkFrame

ChunkNext == Yield \/ Resume \/ Exhaust

SpecChunk == ChunkInit /\ [][ChunkNext]_vars

\* The consumer goes on asking for the next chunk
FairChunk == SpecChunk /\ WF_vars(ChunkNext)

(***************************************************************************)
(* Properties of retriever_catalog._classify                               *)
(***************************************************************************)

\* The text _classify and the worker's classifiers search: (text or "").lower()
Lowered == Lower(OrEmpty(text))

\* The first four of a set of rules, in declaration order
FirstFour(rules) == {n \in rules : Cardinality({k \in rules : k < n}) < 4}

\* The i-th rule of a set of rules, in declaration order
NthRule(rules, i) == CHOOSE n \in rules : Cardinality({k \in rules : k < n}) = i - 1

\* C7: for every text, None and "" included, _classify returns a non-empty list
\* of topic identifiers without a duplicate and of length at most 4.
C7_ClassifyNonEmptyDistinctCapped ==
  tpc # "input" =>
    /\ hits # <<>>
    /\ Len(hits) <= 4
    /\ Cardinality(Range(hits)) = Len(hits)

\* _classify has returned a full list of four identifiers
C7_Witness == tpc = "classified" /\ Len(hits) = 4

\* C8: the list _classify returns holds the identifiers of the first (at most 4)
\* rules of TOPIC_RULES that match the lower-cased text, in declaration order,
\* and nothing else decides membership or order.
C8_ClassifyFirstMatchesInOrder ==
  tpc = "classified" =>
    /\ matching = MatchingRules(Lowered)
    /\ matching # {} =>
         /\ Len(hits) = Cardinality(FirstFour(matching))
         /\ \A i \in 1..Len(hits) :
              hits[i] = TOPIC_RULES[NthRule(FirstFour(matching), i)][1]

\* _classify has returned four identifiers for a text that a later rule
\* matches too, and the rules it kept are not next to each other in the table
C8_Witness ==
  /\ tpc = "classified"
  /\ Len(hits) = 4
  /\ Cardinality(matching) > 4
  /\ \E n \in 1..Len(TOPIC_RULES) :
       /\ n \notin matching
       /\ \E a, b \in FirstFour(matching) : a < n /\ n < b

(***************************************************************************)
(* Properties of the fallback topics                                       *)
(***************************************************************************)

\* The topics of TOPIC_KEYWORDS declared before "general info"
EarlierTopics == 1..(Len(TOPIC_KEYWORDS) - 1)

\* The place of "general info" in TOPIC_KEYWORDS
GeneralInfo == Len(TOPIC_KEYWORDS)

\* C9 as stated: when no rule matches, _classify returns <<"contact">> and
\* classify_topic returns "general info", and neither returns its fallback alone
\* when a rule declared before the fallback's own matches.
C9_FallbackOnlyWhenNothingMatches ==
  tpc = "topic" =>
    /\ matching = {} => hits = <<"contact">>
    /\ hits = <<"contact">> => matching \subseteq {Len(TOPIC_RULES)}
    /\ \E scores \in {TopicScores(Len(TOPIC_KEYWORDS), Lowered)} :
         /\ (\A n \in 1..Len(scores) : scores[n] = 0) => topic_res.topic = "general info"
         /\ topic_res.topic = "general info" => \A n \in EarlierTopics : scores[n] = 0

\* C9 (amended): when no rule matches, _classify returns <<"contact">> and
\* classify_topic returns "general info"; _classify returns <<"contact">> in no
\* case where a rule declared before the contact rule matches; classify_topic
\* returns "general info" exactly when every earlier topic has no keyword in
\* the text or fewer keywords in it than "general info" has.
C9_FallbackByScore ==
  tpc = "topic" =>
    /\ matching = {} => hits = <<"contact">>
    /\ hits = <<"contact">> => matching \subseteq {Len(TOPIC_RULES)}
    /\ \E scores \in {TopicScores(Len(TOPIC_KEYWORDS), Lowered)} :
         /\ (\A n \in 1..Len(scores) : scores[n] = 0) => topic_res.topic = "general info"
         /\ topic_res.topic = "general info" <=>
              \A n \in EarlierTopics : scores[n] = 0 \/ scores[n] < scores[GeneralInfo]

\* Both classifiers have fallen back on a text that no rule of either matches
C9_Witness ==
  /\ tpc = "topic"
  /\ text # None
  /\ text.s # ""
  /\ matching = {}
  /\ \A n \in 1..Len(TOPIC_KEYWORDS) : TopicScore(n, Lowered) = 0
  /\ hits = <<"contact">>
  /\ topic_res.topic = "general info"

(***************************************************************************)
(* Properties of classify_risk                                             *)
(***************************************************************************)

\* C10: when the text holds a RED trigger, classify_risk of the worker and of
\* drafts_module return RED whatever AMBER triggers or PII patterns are in the
\* text too, the RED reason comes first and the AMBER reason is not recorded.
C10_RedTriggerForcesRed ==
  tpc = "risk" =>
    /\ AnyIn(RED_TRIGGERS, Lowered) =>
         /\ risk_res.risk = "RED"
         /\ risk_res.reasons[1] = "High-risk keyword"
         /\ "Potential complaint/escalation" \notin Range(risk_res.reasons)
    /\ AnyIn(drafts_RED_TRIGGERS, Lowered) =>
         /\ drafts_risk_res.risk = "RED"
         /\ drafts_risk_res.reasons[1] = "High-risk keyword"
         /\ "Potential complaint/escalation" \notin Range(drafts_risk_res.reasons)

\* Both functions have returned RED for a text with a RED trigger, an AMBER
\* trigger and a PII pattern in it
C10_Witness ==
  /\ tpc = "risk"
  /\ AnyIn(RED_TRIGGERS, Lowered) /\ AnyIn(drafts_RED_TRIGGERS, Lowered)
  /\ AnyIn(AMBER_TRIGGERS, Lowered) /\ AnyIn(drafts_AMBER_TRIGGERS, Lowered)
  /\ AnySearch(PII_PATTERNS, Lowered)
  /\ risk_res.risk = "RED"
  /\ drafts_risk_res.risk = "RED"

(***************************************************************************)
(* Properties of the autosend decision                                     *)
(***************************************************************************)

\* AUTO_SEND_ALL off, AUTO_SEND_GREEN on
GreenOnly == ~AUTO_SEND_ALL /\ AUTO_SEND_GREEN

\* The topics of TOPIC_KEYWORDS
TopicNames == {TOPIC_KEYWORDS[n][1] : n \in 1..Len(TOPIC_KEYWORDS)}

\* The topics with a keyword in the text, given the topics' scores
TopicsFound(scores) == {n \in 1..Len(scores) : scores[n] > 0}

\* C2: under the green-only policy the autosend decision is true if and only if
\* the one topic classify_topic returned is in the configured green set and the
\* risk tier is GREEN; it is false for every other topic, tier and green set.
C2_GreenOnlyDecision ==
  (tpc = "decided" /\ GreenOnly) =>
    /\ topic_res.topic \in TopicNames
    /\ can_autosend <=> (topic_res.topic \in GREEN_TOPICS /\ risk_res.risk = "GREEN")

\* A green-only decision to send: a green topic at GREEN risk
C2_Witness ==
  /\ tpc = "decided"
  /\ GreenOnly
  /\ can_autosend
  /\ GREEN_TOPICS # DefaultGreenTopics

ProcessStep(m) == batch # <<>> /\ Head(batch) = m /\ batch' = Tail(batch) /\ ~Restart

\* Message m is from the worker's own mailbox, has the subject of an automatic
\* reply or bounce, or is from a no-reply sender while SKIP_NOREPLY is on
LoopMessage(m) ==
  \/ analysis[inbox[m]].is_self
  \/ analysis[inbox[m]].auto_reply
  \/ SKIP_NOREPLY /\ analysis[inbox[m]].noreply

\* C1: for a message with a RED trigger in its text classify_risk returns RED
\* with the reason "High-risk keyword" first, and with AUTO_SEND_ALL off the
\* autosend decision is false for it whatever its topic and AUTO_SEND_GREEN
\* are, and no reply to it is ever sent.
C1_RedNeverAutoSent ==
  \A m \in MsgIds :
    analysis[inbox[m]].red_trigger =>
      /\ analysis[inbox[m]].risk = "RED"
      /\ analysis[inbox[m]].reasons[1] = "High-risk keyword"
      /\ ~AUTO_SEND_ALL => (~Locals(m).can_autosend /\ sent[m] = 0)

\* A RED message on a green topic was drafted for review, with AUTO_SEND_ALL
\* off and AUTO_SEND_GREEN on, and nothing was sent
C1_Witness ==
  \E m \in MsgIds :
    /\ analysis[inbox[m]].red_trigger
    /\ ~AUTO_SEND_ALL /\ AUTO_SEND_GREEN
    /\ analysis[inbox[m]].topic \in GREEN_TOPICS
    /\ drafts[m] > 0
    /\ categories[m] = <<CATEGORY_NEEDSREV>>
    /\ sent[m] = 0

\* C4: while a message id is in processed_ids, process_message for it makes no
\* Graph call, and no reply draft is created and no reply is sent for it; the
\* id stays in the set in every step of the running worker.
C4_ProcessedNeverHandledAgain ==
  [][\A m \in MsgIds :
       m \in processed_ids =>
         /\ drafts'[m] = drafts[m]
         /\ sent'[m] = sent[m]
         /\ ProcessStep(m) => calls' = <<>>
         /\ m \in processed_ids' \/ Restart]_vars

\* A message with a reply draft, recorded as processed and still unread, is
\* the next of a later poll's batch
C4_Witness ==
  /\ batch # <<>>
  /\ Head(batch) \in processed_ids
  /\ drafts[Head(batch)] > 0
  /\ calls # <<>>

\* C5 as stated: every id recorded as processed is in the set load_state
\* reads from the state file, so a restart loses none.
C5_ProcessedIdsSurviveRestart ==
  processed_ids \subseteq load_state(state_file)

\* C6: in every policy mode a message from the worker's own address, with the
\* subject of an automatic reply, or (SKIP_NOREPLY on) from a no-reply sender
\* never gets a reply draft, a reply or a category; process_message for it,
\* when it is not yet recorded and its fetch succeeds, records it as processed.
C6_LoopGuardsInEveryMode ==
  [][\A m \in MsgIds :
       LoopMessage(m) =>
         /\ drafts'[m] = 0
         /\ sent'[m] = 0
         /\ categories'[m] = <<>>
         /\ (ProcessStep(m) /\ m \notin processed_ids) =>
              \/ log' = "HTTP error" /\ calls' = <<"get_message_body">>
              \/ log' = "Skip" /\ m \in processed_ids']_vars

\* With AUTO_SEND_ALL on, a message from the worker's own address and one
\* from a no-reply sender were both skipped and recorded
C6_Witness ==
  /\ AUTO_SEND_ALL
  /\ log = "Skip"
  /\ \E m, n \in processed_ids :
       /\ analysis[inbox[m]].is_self
       /\ analysis[inbox[n]].noreply /\ ~analysis[inbox[n]].is_self
       /\ drafts[m] = 0 /\ drafts[n] = 0

(***************************************************************************)
(* Properties of the PII step and of the reasons of classify_risk          *)
(***************************************************************************)

\* The tier the keyword step sets, given the RED and AMBER triggers to look for
KeywordTier(red, amber) ==
  IF AnyIn(red, Lowered) THEN "RED"
  ELSE IF AnyIn(amber, Lowered) THEN "AMBER"
  ELSE "GREEN"

\* The reason the keyword step records for a tier
KeywordReasons(tier) ==
  CASE tier = "RED" -> <<"High-risk keyword">>
    [] tier = "AMBER" -> <<"Potential complaint/escalation">>
    [] tier = "GREEN" -> <<>>

\* The number of times a reason is in a list of reasons
Occurrences(reasons, reason) == Cardinality({i \in 1..Len(reasons) : reasons[i] = reason})

\* The PII step on the result res of a text whose keyword tier is tier
PiiStepHolds(res, tier, pii) ==
  IF pii
    THEN /\ res.risk = (IF tier = "GREEN" THEN "AMBER" ELSE tier)
         /\ res.reasons = Append(KeywordReasons(tier), "PII detected")
         /\ Occurrences(res.reasons, "PII detected") = 1
    ELSE /\ res.risk = tier
         /\ Occurrences(res.reasons, "PII detected") = 0

\* C11: a PII-shaped match upgrades GREEN to AMBER, leaves AMBER and RED as
\* they are and appends exactly one "PII detected" after any keyword reason;
\* without a match the keyword step's tier is returned and "PII detected" is
\* not among the reasons.  In the worker and in drafts_module.
C11_PiiUpgradesGreenOnly ==
  tpc = "risk" =>
    \E pii \in {AnySearch(PII_PATTERNS, Lowered)} :
      /\ PiiStepHolds(risk_res, KeywordTier(RED_TRIGGERS, AMBER_TRIGGERS), pii)
      /\ PiiStepHolds(drafts_risk_res,
                      KeywordTier(drafts_RED_TRIGGERS, drafts_AMBER_TRIGGERS), pii)

\* Both functions have kept RED for a text with a RED trigger and a PII-shaped
\* number and have recorded both reasons
C11_Witness ==
  /\ tpc = "risk"
  /\ AnySearch(PII_PATTERNS, Lowered)
  /\ risk_res = [risk |-> "RED", reasons |-> <<"High-risk keyword", "PII detected">>]
  /\ drafts_risk_res = risk_res

\* Nothing in the text for classify_risk to find, given its triggers
NothingFound(red, amber) ==
  ~AnyIn(red, Lowered) /\ ~AnyIn(amber, Lowered) /\ ~AnySearch(PII_PATTERNS, Lowered)

\* The reasons of res are never empty; they are the one reason `none` at tier
\* GREEN exactly when nothing was found, and `none` comes with nothing else
DefaultReasonHolds(res, none, nothing) ==
  /\ res.reasons # <<>>
  /\ nothing <=> res = [risk |-> "GREEN", reasons |-> <<none>>]
  /\ none \in Range(res.reasons) => (res.reasons = <<none>> /\ res.risk = "GREEN")

\* C12 as stated: the reasons are never empty, and they are the single reason
\* "no risk triggers detected" at tier GREEN exactly when the text holds no
\* RED trigger, no AMBER trigger and no PII-shaped pattern.
C12_DefaultReasonLowerCase ==
  tpc = "risk" =>
    /\ DefaultReasonHolds(risk_res, "no risk triggers detected",
                          NothingFound(RED_TRIGGERS, AMBER_TRIGGERS))
    /\ DefaultReasonHolds(drafts_risk_res, "no risk triggers detected",
                          NothingFound(drafts_RED_TRIGGERS, drafts_AMBER_TRIGGERS))

\* C12 (amended): the same with the reason spelt as the code spells it,
\* "No risk triggers detected".
C12_DefaultReasonAsSpelt ==
  tpc = "risk" =>
    /\ DefaultReasonHolds(risk_res, "No risk triggers detected",
                          NothingFound(RED_TRIGGERS, AMBER_TRIGGERS))
    /\ DefaultReasonHolds(drafts_risk_res, "No risk triggers detected",
                          NothingFound(drafts_RED_TRIGGERS, drafts_AMBER_TRIGGERS))

\* Both functions have returned GREEN with the default reason alone for a
\* text that is not empty
C12_Witness ==
  /\ tpc = "risk"
  /\ text # None
  /\ text.s # ""
  /\ risk_res = [risk |-> "GREEN", reasons |-> <<"No risk triggers detected">>]
  /\ drafts_risk_res = risk_res

(***************************************************************************)
(* Properties of the autosend decision in the modes `always` and `off`     *)
(***************************************************************************)

\* C13: with AUTO_SEND_ALL on the decision is true for every topic and every
\* tier, RED included; with AUTO_SEND_ALL and AUTO_SEND_GREEN off it is false
\* for every topic and tier, a green topic at GREEN included.
C13_AlwaysAndOffModes ==
  tpc = "decided" =>
    /\ can_autosend \in BOOLEAN
    /\ AUTO_SEND_ALL => can_autosend
    /\ (~AUTO_SEND_ALL /\ ~AUTO_SEND_GREEN) => ~can_autosend

\* The decision to send a RED message on a topic outside the green set, taken
\* with AUTO_SEND_ALL on and AUTO_SEND_GREEN off
C13_Witness ==
  /\ tpc = "decided"
  /\ AUTO_SEND_ALL /\ ~AUTO_SEND_GREEN
  /\ risk_res.risk = "RED"
  /\ ~topic_res.is_green
  /\ can_autosend

\* The catalog file's councils as _deep_merge receives them
FileCouncils == normalize_catalog_blob(catalog_file.blob)

\* The file's topic entries for a council (none when the file lacks the council)
FileTopics(c) ==
  IF c \in DOMAIN FileCouncils /\ FileCouncils[c].topics.kind = "dict"
  THEN FileCouncils[c].topics.map ELSE EmptyMap

\* The built-in topic entries of a council (none for a council not built in)
BuiltinTopicsOf(c) ==
  IF c \in DOMAIN BUILTIN_CATALOG THEN BUILTIN_CATALOG[c].topics ELSE EmptyMap

\* The call read a JSON file and _deep_merge returned
Merged ==
  /\ apc = "answered"
  /\ catalog_file.exists /\ catalog_file.json
  /\ ~DeepMergeRaises(FileCouncils)

\* C18: after _deep_merge the councils are the built-in ones and the file's;
\* for each council the keys are the built-in keys and the file's keys of that
\* council, and the entry of a key is the file's entry of that council when
\* the file has the key there and the built-in entry otherwise.
C18_MergeIsPerCouncilAndKey ==
  Merged =>
    /\ DOMAIN catalog = DOMAIN BUILTIN_CATALOG \cup DOMAIN FileCouncils
    /\ \A c \in DOMAIN catalog :
         /\ DOMAIN catalog[c].topics = DOMAIN BuiltinTopicsOf(c) \cup DOMAIN FileTopics(c)
         /\ \A k \in DOMAIN catalog[c].topics :
              catalog[c].topics[k] =
                IF k \in DOMAIN FileTopics(c) THEN FileTopics(c)[k]
                ELSE BuiltinTopicsOf(c)[k]

\* A file that overrides the built-in "rates_pay" entry of Wyndham and brings a
\* second council with a "contact" entry of its own has been merged
C18_Witness ==
  /\ Merged
  /\ "rates_pay" \in DOMAIN FileTopics("Wyndham City Council")
  /\ "contact" \in DOMAIN FileTopics("Other Shire")
  /\ catalog["Wyndham City Council"].topics["rates_pay"] # BuiltinTopics["rates_pay"]
  /\ catalog["Wyndham City Council"].topics["contact"] = BuiltinTopics["contact"]
  /\ catalog["Other Shire"].topics["contact"] # BuiltinTopics["contact"]

\* answer returned a reply for a council it found
Replied == apc = "answered" /\ ~answer_res.raised /\ ~answer_res.escalated

\* C14 as stated: the links of a reply (the anchors of its body, which its
\* citations follow one for one) never hold the same URL twice.
C14_NoUrlTwice ==
  Replied =>
    \A i, j \in DOMAIN answer_res.items :
      answer_res.items[i].href = answer_res.items[j].href => i = j

\* The topics of a list in the order of their first occurrence, each once
RECURSIVE Topics(_, _, _)
Topics(wanted, n, seen) ==
  IF n > Len(wanted) THEN seen
  ELSE Topics(wanted, n + 1,
              IF wanted[n] \in Range(seen) THEN seen ELSE Append(seen, wanted[n]))

\* The catalog entries of the council answer picked
PickedTopics ==
  IF ~council_name.none /\ council_name.s \in DOMAIN catalog
  THEN catalog[council_name.s].topics
  ELSE catalog["Wyndham City Council"].topics

\* A topic with a catalog entry that has a URL
HasUrl(key) ==
  /\ key \in DOMAIN PickedTopics
  /\ PickedTopics[key].kind = "dict"
  /\ Truthy(PickedTopics[key].url)

\* One entry per topic of the list that has a URL, in the order of the list
RECURSIVE OnePerTopic(_, _)
OnePerTopic(topics, n) ==
  IF n > Len(topics) THEN <<>>
  ELSE (IF HasUrl(topics[n]) THEN <<PickedTopics[topics[n]]>> ELSE <<>>)
         \o OnePerTopic(topics, n + 1)

\* C15 as stated: a reply holds at most MAX_LINKS links and as many citations;
\* when some topic of the list has an entry with a URL, the links are the
\* first MAX_LINKS of one entry per such topic, in the order of the list.
C15_OneLinkPerTopicInOrder ==
  Replied =>
    /\ Len(answer_res.items) <= MAX_LINKS
    /\ Len(answer_res.citations) = Len(answer_res.items)
    /\ \E merged \in {OnePerTopic(Topics(answer_res.wanted, 1, <<>>), 1)} :
         merged # <<>> =>
           answer_res.items = [i \in 1..Len(Take(merged, MAX_LINKS)) |-> ListItem(merged[i])]

\* The links of the topics answer went through, before the fallback
FoundLinks == OnePerTopic(answer_res.wanted, 1)

\* The council's catalog has a "contact" entry
HasContact == "contact" \in DOMAIN PickedTopics /\ EntryTruthy(PickedTopics["contact"])

\* C16: in a reply for a council answer found, when no topic of the list has
\* an entry with a URL the links are the council's "contact" entry alone if
\* the catalog has one and none otherwise; when some topic has one, the links
\* are those of the topics and the fallback adds nothing.
C16_ContactOnlyWhenEmpty ==
  Replied =>
    \E found \in {FoundLinks} :
      /\ found = <<>> /\ HasContact => answer_res.links = <<PickedTopics["contact"]>>
      /\ found = <<>> /\ ~HasContact => answer_res.links = <<>>
      /\ found # <<>> => answer_res.links = found

\* A reply to a text about pools for a council whose catalog has a "contact"
\* entry and none for leisure centres cites the contact entry alone
C16_Witness ==
  /\ Replied
  /\ answer_res.wanted # <<>>
  /\ "contact" \notin Range(answer_res.wanted)
  /\ FoundLinks = <<>>
  /\ HasContact
  /\ answer_res.citations = <<Citation(PickedTopics["contact"])>>

\* answer was called with an identifier that is no council of the catalog
UnknownCouncil ==
  /\ apc = "answered"
  /\ ~council_name.none
  /\ council_name.s \notin DOMAIN catalog

\* The call returned the escalation reply: no link in the body, no citation
EscalationReply ==
  /\ ~answer_res.raised
  /\ answer_res.escalated
  /\ answer_res.items = <<>>
  /\ answer_res.citations = <<>>

\* C17 as stated: for an identifier that is no council of the catalog, and any
\* text, answer raises nothing and returns the escalation reply with no
\* citation.
C17_UnknownCouncilEscalates == UnknownCouncil => EscalationReply

\* C17, amended: for an identifier that is no council of the catalog and does
\* not contain "wyndham" in any letter case, and any text, answer raises
\* nothing and returns the escalation reply with no citation; an identifier
\* that contains "wyndham" is answered from the catalog of Wyndham City Council.
C17_UnknownCouncilEscalatesUnlessWyndham ==
  UnknownCouncil =>
    IF Contains(Lower(council_name.s), "wyndham")
    THEN ~answer_res.escalated /\ answer_res.council \in {"", "Wyndham City Council"}
    ELSE EscalationReply

\* answer was called for "not-a-real-council" with a text about libraries
\* while catalog.json holds Wyndham entries, and returned the escalation reply
C17_Witness ==
  /\ UnknownCouncil
  /\ council_name = Str("not-a-real-council")
  /\ email_text = Str("library")
  /\ catalog_file.exists
  /\ EscalationReply
  /\ answer_res.council = "not-a-real-council"

\* C19 as stated: whatever the file at CATALOG_PATH holds, a call of answer
\* with a council identifier raises nothing; an entry that is no mapping or
\* lacks "url" or "title" is passed over as if the key had no entry.
C19_MalformedEntriesNeverRaise ==
  apc = "answered" /\ ~council_name.none => ~answer_res.raised

\* answer was called for a council it finds in the catalog (by name, or as
\* Wyndham City Council by the word "wyndham")
KnownCouncil ==
  /\ apc = "answered"
  /\ ~council_name.none
  /\ council_name.s \in DOMAIN catalog \/ Contains(Lower(council_name.s), "wyndham")

\* C20 as stated: when a topic found in the text has a catalog entry with a
\* URL and no title, answer returns a reply whose body links the URL with the
\* URL as its text, and whose citations hold "<URL> | <URL>".
C20_TitleDefaultsToUrl ==
  KnownCouncil =>
    \A key \in Range(classify(email_text)) :
      HasUrl(key) /\ PickedTopics[key].title.none =>
        \E url \in {PickedTopics[key].url.s} :
          /\ ~answer_res.raised
          /\ [href |-> HtmlEscape(url), text |-> HtmlEscape(url)] \in Range(answer_res.items)
          /\ (url \o " | " \o url) \in Range(answer_res.citations)

(***************************************************************************)
(* The two risk classifiers side by side                                   *)
(***************************************************************************)

\* C29 as stated: for every text, drafts_module.classify_risk and the
\* worker's classify_risk return the same tier and the same reasons.
C29_ClassifiersAgree ==
  tpc = "decided" => drafts_risk_res = risk_res

(***************************************************************************)
(* Properties of the calls of retriever_catalog.answer                     *)
(***************************************************************************)

\* A step of process_message for m in which no Graph call raised
NoGraphFailure ==
  /\ log' # "HTTP error"
  /\ ~(log' = "Error" /\ "mark_read" \in Range(calls'))

\* C28 as stated: process_message for a message that is not yet recorded and
\* passes the loop guards, with every Graph call succeeding, calls
\* create_reply_draft and records the message as processed.
C28_CallersReachDraft ==
  [][\A m \in MsgIds :
       (ProcessStep(m) /\ m \notin processed_ids /\ ~LoopMessage(m) /\ NoGraphFailure) =>
         /\ "create_reply_draft" \in Range(calls')
         /\ m \in processed_ids']_vars

(***************************************************************************)
(* Properties of the gate inside process_message                           *)
(***************************************************************************)

\* The autosend decision of line 261 for message m
Decision(m) ==
  CanAutosend(AUTO_SEND_ALL, AUTO_SEND_GREEN,
              analysis[inbox[m]].topic \in GREEN_TOPICS, analysis[inbox[m]].risk)

\* The place of a call in the calls of the latest process_message (0: absent)
CallIndex(seq, call) ==
  IF call \in Range(seq) THEN CHOOSE i \in DOMAIN seq : seq[i] = call ELSE 0

\* process_message for m got its reply draft created and filled in this step
DraftReady(m) ==
  ProcessStep(m) /\ drafts'[m] = drafts[m] + 1 /\ log' # "HTTP error"

C26_AtMostOneReply ==
  \A m \in MsgIds : sent[m] <= 1

\* A listing of the unread messages that succeeded and found some
Listed == batch = <<>> /\ batch' # <<>>

\* process_message for m ended in one of its except clauses
Failed(m) == ProcessStep(m) /\ m \notin processed_ids /\ log' \in {"HTTP error", "Error"}

\* C27 as stated: an exception in process_message for a message leaves the
\* rest of the batch to be processed and the message's id out of
\* processed_ids; the loop then polls again, and every unread message whose id
\* is not in processed_ids (each failed one among them) is in the batch of
\* every listing that succeeds.
C27_FailedMessageTriedAgain ==
  [][/\ \A m \in DOMAIN inbox :
          Failed(m) => batch' = Tail(batch) /\ processed_ids' = processed_ids
     /\ Listed =>
          \A m \in DOMAIN inbox :
            ~is_read[m] /\ m \notin processed_ids => m \in Range(batch')]_vars

(***************************************************************************)
(* Properties of the body answer composes                                  *)
(***************************************************************************)

\* C25 as stated: the helper line of a reply is the snippet of the first
\* topic of the list when that topic has one, and the generic introductory
\* line (no helper) when it has none.
C25_HelperOfLeadTopic ==
  Replied /\ answer_res.wanted # <<>> =>
    answer_res.helper = IF answer_res.wanted[1] \in TOPIC_SNIPPETS
                        THEN Str(answer_res.wanted[1]) ELSE None

(***************************************************************************)
(* Properties of the composed replies                                      *)
(***************************************************************************)

\* The entities html.escape writes
Entities == {"&amp;", "&lt;", "&gt;", "&quot;", "&#x27;"}

\* One of the entities starts at position i of s
EntityAt(s, i) ==
  \E e \in Entities : i + Len(e) - 1 <= Len(s) /\ SubSeq(s, i, i + Len(e) - 1) = e

\* No markup character stands unescaped in s
Escaped(s) ==
  \A i \in 1..Len(s) :
    /\ CharAt(s, i) \notin {"<", ">", "\"", "'"}
    /\ CharAt(s, i) = "&" => EntityAt(s, i)

\* The text of the arguments written into the reply
Interpolated ==
  {reply.council, reply.quote}
    \cup {reply.items[i].href : i \in DOMAIN reply.items}
    \cup {reply.items[i].text : i \in DOMAIN reply.items}

\* C21: in the reply _default_reply or build_email_html returns, the council
\* name, the enquiry and the titles and URLs of the links hold no unescaped
\* markup character (<, >, &, quote)
C21_ExternalTextEscaped ==
  (cpc = "done" /\ reply.fn \in {"_default_reply", "build_email_html"} /\ ~reply.raised)
    => \A s \in Interpolated : Escaped(s)

\* build_cited_reply has returned or raised
Cited == cpc = "done" /\ reply.fn = "build_cited_reply"

\* The reply holds the body the answer source returned
SourceHtml ==
  /\ get_answer_fn.kind = "returns"
  /\ ~get_answer_fn.html.none
  /\ reply.body = WithReviewNote(get_answer_fn.html.s)

\* C23: for every email text, every council name (the empty string included)
\* and every answer source (absent, raising, returning any shape),
\* build_cited_reply raises nothing and returns the default reply or the body
\* the source returned
C23_SourceFailureDegrades ==
  Cited => ~reply.raised /\ (reply.default \/ SourceHtml)

\* s begins with p
StartsWith(s, p) == Len(s) >= Len(p) /\ SubSeq(s, 1, Len(p)) = p

\* What stands at the head of a piece of html text: an entity (its
\* character), a <br> (a newline) or one character, and how long it is
HeadToken(s) ==
  CASE StartsWith(s, "&amp;") -> [char |-> "&", len |-> 5]
    [] StartsWith(s, "&lt;") -> [char |-> "<", len |-> 4]
    [] StartsWith(s, "&gt;") -> [char |-> ">", len |-> 4]
    [] StartsWith(s, "&quot;") -> [char |-> "\"", len |-> 6]
    [] StartsWith(s, "&#x27;") -> [char |-> "'", len |-> 6]
    [] StartsWith(s, "<br>") -> [char |-> "\n", len |-> 4]
    [] OTHER -> [char |-> CharAt(s, 1), len |-> 1]

\* What a browser shows for a short piece of html text, read from the left
RECURSIVE UnquoteShort(_)
UnquoteShort(s) ==
  IF s = "" THEN ""
  ELSE LET head == HeadToken(s)
       IN head.char \o UnquoteShort(SubSeq(s, head.len + 1, Len(s)))

\* The last place at or before h, no more than four characters back, where an
\* entity or a <br> may begin (0 if there is none)
LastStart(s, h) ==
  LET starts == {p \in (h - 4)..h : CharAt(s, p) \in {"&", "<"}}
  IN IF starts = {} THEN 0 ELSE CHOOSE p \in starts : \A q \in starts : q <= p

\* The same for a text of any length, cut in two where no entity is cut
RECURSIVE Unquote(_)
Unquote(s) ==
  IF Len(s) <= 12 THEN UnquoteShort(s)
  ELSE LET h == Len(s) \div 2
           p == LastStart(s, h)
           cut == IF p = 0 THEN h ELSE p - 1
       IN Unquote(SubSeq(s, 1, cut)) \o Unquote(SubSeq(s, cut + 1, Len(s)))

\* answer or build_email_html has written the quoted block for email_text
Quoted == cpc = "done" /\ reply.fn \in {"answer", "build_email_html"} /\ ~reply.raised

\* s is the beginning of t
IsPrefix(s, t) == Len(s) <= Len(t) /\ SubSeq(t, 1, Len(s)) = s

\* C22 as claimed: the quoted block, unescaped, is a prefix of the enquiry, in
\* answer one of 900 characters at most
C22_QuoteIsPrefix ==
  Quoted =>
    /\ IsPrefix(Unquote(reply.quote), OrEmpty(email_text))
    /\ reply.fn = "answer" => Len(Unquote(reply.quote)) <= SnippetLimit

\* C22: the quoted block, unescaped, is in answer the first 900 characters of
\* the enquiry without the whitespace at its two ends, and in
\* build_email_html the whole enquiry with each run of whitespace made one
\* space and without the whitespace at its two ends
C22_QuoteIsNormalisedText ==
  Quoted =>
    Unquote(reply.quote) =
      IF reply.fn = "answer" THEN Take(Strip(OrEmpty(email_text)), SnippetLimit)
      ELSE Strip(CollapseRange(OrEmpty(email_text), 1, Len(OrEmpty(email_text))))

\* answer has cut an enquiry of more than 900 characters that holds markup
C22_Witness ==
  /\ Quoted
  /\ reply.fn = "answer"
  /\ Len(Strip(OrEmpty(email_text))) > SnippetLimit
  /\ Len(reply.quote) > SnippetLimit

(***************************************************************************)
(* Properties of ingest.chunk                                              *)
(***************************************************************************)

\* C30: for every text chunk comes to its end: after finitely many chunks the
\* generator is exhausted
C30_ChunkTerminates == <>(kpc = "done")

====
